---- MODULE Spec2Model ----
(***************************************************************************)
(* A model of one oceanraft node: the facade (multiraft.rs), the propose   *)
(* channel, the node actor's loop and the per-group handle (group.rs),     *)
(* with the raft library's RawNode of the group's local replica as a       *)
(* black box and the apply pipeline behind it.                             *)
(***************************************************************************)
EXTENDS Integers, Sequences, FiniteSets, TLC

\* ---- bounds ----
MaxTerm == 2
MaxIndex == 3
MaxReq == 2
ReelectTerms == 3
ReelectReqs == 3
MaxWriteLog == 2
MaxBatchLen == 2
MaxBatchSize == 3
MaxRead == 1
ReadsInFlight == 2
MaxFaults == 1
MaxManage == 2

\* ---- constants of the source ----
NO_NODE == 0
NO_LEADER == 0
ChanCap == 1
NodeId == 1
GroupId == 1
BadGroupId == GroupId + 1
LocalReplica == NodeId
PeerReplica == NodeId + 1

\* ---- configuration the model runs with ----
max_apply_batch_size == 2
heartbeat_tick == 2

Min(a, b) == IF a < b THEN a ELSE b

None == <<>>

\* request kinds and the payload/term inputs of a write
Terms == 0..MaxTerm

VARIABLES
    groups,              \* ids of the groups in the actor's group map
    group,               \* the RaftGroup handle of GroupId
    raft,                \* the RawNode of the handle (library state)
    replica_cache,       \* replica descs: cached, and stored
    pc,                  \* position of the actor's loop pass
    active,              \* the group is in the activity set of the iteration
    budget,              \* what the environment may still do: requests, reads, storage failures
    gwr,                 \* RaftGroupWriteRequest of the pass
    multi_groups_apply,  \* group id -> ApplyData collected in the pass
    apply_chan,          \* batches handed to the apply side
    delivered,           \* indexes of the entries applied by the state machine
    propose_chan,        \* the bounded propose channel
    expected,            \* request id -> the expected term of its queued record
    replies,             \* request id -> the replies it got
    read_replies,        \* read uuid -> the replies it got
    events,              \* events pushed to the event channel
    actor,               \* the MultiRaftActor of src/multiraft/multiraft.rs
    facade,              \* the MultiRaft facade: its senders to the actor, the calls made on it
    ticker,              \* the ManualTick of tick.rs
    transport            \* the raft messages handed to the transport in the running loop pass

vars == <<groups, group, raft, replica_cache, pc, active, budget, gwr, multi_groups_apply,
          apply_chan, delivered, propose_chan, expected, replies, read_replies,
          events, actor, facade, ticker, transport>>

\* the parts a handler of the node actor does not touch
OtherParts == <<actor, facade, ticker, transport>>

\* ---------------------------------------------------------------------
\* The raft library (RawNode) of the local replica
\* ---------------------------------------------------------------------
SoftState(r) == [leader_id |-> r.leader_id, raft_state |-> r.state]

last_index(r) == Len(r.log)

is_leader(r) == r.state = "Leader"

RawNodeNew ==
    [state |-> "Follower", term |-> 0, leader_id |-> NO_LEADER, log |-> <<>>,
     committed |-> 0, persisted |-> 0, since |-> 0,
     prev_ss |-> [leader_id |-> NO_LEADER, raft_state |-> "Follower"],
     read_states |-> <<>>, pending_reads |-> <<>>, records |-> 0, id |-> LocalReplica]

Entry(r, i) == [index |-> i, term |-> r.log[i].term, data |-> r.log[i].data]

\* the committed entries a Ready or LightReady hands out: (since, min(committed, persisted)]
CommittedEntries(r) ==
    [k \in 1..(Min(r.committed, r.persisted) - r.since) |-> Entry(r, r.since + k)]

has_ready(r) ==
    \/ SoftState(r) # r.prev_ss
    \/ Len(r.log) > r.persisted
    \/ Min(r.committed, r.persisted) > r.since
    \/ r.read_states # <<>>

\* RawNode::ready: the Ready takes the soft state change, the read states
\* and the committed entries; the library moves commit_since_index at once
\* and keeps a record of the Ready until it is advanced. A leader's messages
\* (the appends of its new entries) are in `messages`; the messages of the
\* other roles wait for the Ready to be persisted
ready(r) ==
    [ss |-> IF SoftState(r) # r.prev_ss THEN <<SoftState(r)>> ELSE <<>>,
     read_states |-> r.read_states,
     committed_entries |-> CommittedEntries(r),
     messages |-> IF is_leader(r) /\ Len(r.log) > r.persisted THEN <<"MsgAppend">> ELSE <<>>,
     persisted_messages |->
         IF is_leader(r) THEN <<>>
         ELSE IF r.state = "Candidate" /\ SoftState(r) # r.prev_ss THEN <<"MsgRequestVote">>
         ELSE IF Len(r.log) > r.persisted THEN <<"MsgAppendResponse">>
         ELSE <<>>,
     last |-> Len(r.log)]

AfterReady(r) ==
    [r EXCEPT !.since = IF Min(r.committed, r.persisted) > @
                        THEN Min(r.committed, r.persisted) ELSE @,
              !.read_states = <<>>,
              !.records = @ + 1]

\* RawNode::advance_append: the Ready's entries are persisted and its soft
\* state is recorded; the records up to this Ready's are dropped
AfterAdvanceAppend(r, rd) ==
    [r EXCEPT !.persisted = IF rd.last > @ THEN rd.last ELSE @,
              !.prev_ss = IF rd.ss # <<>> THEN rd.ss[1] ELSE @,
              !.records = 0]

LightReady(r) == [committed_entries |-> CommittedEntries(r)]

AfterLightReady(r) ==
    [r EXCEPT !.since = IF Min(r.committed, r.persisted) > @
                        THEN Min(r.committed, r.persisted) ELSE @]

\* ---------------------------------------------------------------------
\* replies
\* ---------------------------------------------------------------------
Reply(kind, by, args) == [kind |-> kind, by |-> by, args |-> args]

\* send each record ps[k] the reply rps[k] on its reply channel
SendAll(rs, ps, rps) ==
    [r \in DOMAIN rs |->
        LET mine == SelectSeq([k \in 1..Len(ps) |-> k], LAMBDA k : ps[k].req = r)
        IN rs[r] \o [j \in 1..Len(mine) |-> rps[mine[j]]]]

Send(rs, req, rp) == [rs EXCEPT ![req] = Append(@, rp)]

\* ---------------------------------------------------------------------
\* ProposalQueue and ApplyData
\* ---------------------------------------------------------------------
Proposal(index, term, is_conf_change, req) ==
    [index |-> index, term |-> term, is_conf_change |-> is_conf_change, req |-> req]

\* a find_proposal that matches a record by its index alone
find_proposal_by_index(queue, term, index, current_term) ==
    IF term # current_term
    THEN [queue |-> queue, found |-> <<>>, stale |-> <<>>]
    ELSE [queue |-> SelectSeq(queue, LAMBDA p : p.index # index),
          found |-> SelectSeq(queue, LAMBDA p : p.index = index),
          stale |-> <<>>]

\* ProposalQueue::find_proposal: scans only for an entry of the current
\* term; records of a lower term are resolved stale on the way
find_proposal(queue, term, index, current_term) ==
    IF term # current_term
    THEN [queue |-> queue, found |-> <<>>, stale |-> <<>>]
    ELSE [queue |-> SelectSeq(queue, LAMBDA p : p.term >= current_term
                                      /\ ~(p.term = term /\ p.index = index)),
          found |-> SelectSeq(queue, LAMBDA p : p.term = term /\ p.index = index),
          stale |-> SelectSeq(queue, LAMBDA p : p.term < current_term)]

RECURSIVE scan_entries(_, _, _)
scan_entries(queue, entries, current_term) ==
    IF entries = <<>> \/ queue = <<>>
    THEN [queue |-> queue, found |-> <<>>, stale |-> <<>>]
    ELSE LET f == find_proposal(queue, Head(entries).term, Head(entries).index, current_term)
             rest == scan_entries(f.queue, Tail(entries), current_term)
         IN [queue |-> rest.queue, found |-> f.found \o rest.found,
             stale |-> f.stale \o rest.stale]

compute_entry_size(e) == IF e.index > 0 THEN 1 ELSE 0

RECURSIVE entries_size(_)
entries_size(entries) ==
    IF entries = <<>> THEN 0
    ELSE compute_entry_size(Head(entries)) + entries_size(Tail(entries))

storage_term(r, i) == IF i = 0 THEN 0 ELSE r.log[i].term

\* a create_apply that takes the records of a lower term for matched ones
create_apply_keeps_stale(g, r, replica_id, entries) ==
    LET current_term == r.term
        commit_index == Min(r.committed, r.persisted)
        scan == scan_entries(g.proposals, entries, current_term)
    IN [apply |-> [replica_id |-> replica_id, group_id |-> g.group_id,
                   term |-> current_term, commit_index |-> commit_index,
                   commit_term |-> storage_term(r, commit_index),
                   entries |-> entries, entries_size |-> entries_size(entries),
                   proposals |-> scan.stale \o scan.found],
        queue |-> scan.queue, stale |-> <<>>]

\* a create_apply that takes the committed index for the commit index
create_apply_commits_unpersisted(g, r, replica_id, entries) ==
    LET current_term == r.term
        commit_index == r.committed
        scan == scan_entries(g.proposals, entries, current_term)
    IN [apply |-> [replica_id |-> replica_id, group_id |-> g.group_id,
                   term |-> current_term, commit_index |-> commit_index,
                   commit_term |-> storage_term(r, commit_index),
                   entries |-> entries, entries_size |-> entries_size(entries),
                   proposals |-> scan.found],
        queue |-> scan.queue, stale |-> scan.stale]

\* RaftGroup::create_apply
create_apply(g, r, replica_id, entries) ==
    LET current_term == r.term
        commit_index == Min(r.committed, r.persisted)
        scan == scan_entries(g.proposals, entries, current_term)
    IN [apply |-> [replica_id |-> replica_id, group_id |-> g.group_id,
                   term |-> current_term, commit_index |-> commit_index,
                   commit_term |-> storage_term(r, commit_index),
                   entries |-> entries, entries_size |-> entries_size(entries),
                   proposals |-> scan.found],
        queue |-> scan.queue, stale |-> scan.stale]

maybe_update_committed_term(g, term) ==
    IF g.committed_term # term /\ g.leader.replica_id # 0
    THEN [g EXCEPT !.committed_term = term] ELSE g

insert(m, k, v) == [x \in (DOMAIN m) \cup {k} |-> IF x = k THEN v ELSE m[x]]

\* a size check that refuses a batch that fills the budget exactly
can_batch_below_budget(this, that, max_batch_size) ==
    ~(max_batch_size = 0 \/ this.entries_size + that.entries_size >= max_batch_size)

\* ApplyData::try_batch
can_batch(this, that, max_batch_size) ==
    ~(max_batch_size = 0 \/ this.entries_size + that.entries_size > max_batch_size)

try_batch(this, that) ==
    [this EXCEPT !.term = that.term, !.commit_index = that.commit_index,
                 !.commit_term = that.commit_term,
                 !.entries = @ \o that.entries,
                 !.entries_size = @ + that.entries_size,
                 !.proposals = @ \o that.proposals]

\* ---------------------------------------------------------------------
\* Init
\* ---------------------------------------------------------------------
NoGroup ==
    [node_id |-> NodeId, group_id |-> GroupId, replica_id |-> 0,
     proposals |-> <<>>, read_index_queue |-> <<>>,
     leader |-> [node_id |-> NO_NODE, replica_id |-> 0],
     committed_term |-> 0, status |-> "None"]

\* a run takes requests with no storage failure, or one request fewer with storage failures
Budgets ==
    {[reqs |-> MaxReq, reads |-> 0, faults |-> 0, failed |-> "none", terms |-> MaxTerm],
     [reqs |-> MaxReq - 1, reads |-> 0, faults |-> MaxFaults, failed |-> "none", terms |-> MaxTerm]}

\* MultiRaftActor::spawn: the actor of src/multiraft/multiraft.rs over a storage
ActorNew(storages) ==
    [groups |-> <<>>, nodes |-> <<>>, storages |-> storages, ticks |-> 0,
     manager_group_rx |-> <<>>, requests |-> <<>>, results |-> <<>>,
     raft_message_rx |-> <<>>, received |-> 0,
     write_propose_rx |-> <<>>, writes |-> <<>>, last_index |-> <<>>, proposals |-> <<>>,
     outbox |-> <<>>, send_failed |-> {}, stepped |-> {}, handled |-> "None",
     panicked |-> FALSE]

\* a sender of the facade to the actor: the messages waiting in the
\* channel, and whether the actor has dropped the receiver
Sender == [len |-> 0, closed |-> FALSE]

\* MultiRaft::new: the senders of the propose, campaign and management
\* channels, the stopped flag; calls is the log of the calls made
FacadeNew ==
    [propose_tx |-> Sender, campaign_tx |-> Sender, manage_tx |-> Sender,
     stopped |-> FALSE, calls |-> <<>>, panicked |-> FALSE]

\* ManualTick::new: an unbounded channel of tick requests behind a mutex,
\* with what has happened to the requests sent over it
ManualTickNew ==
    [chan |-> <<>>, lock |-> 0, requests |-> <<>>, recvs |-> <<>>,
     answered |-> {}, returned |-> {}, dropped |-> {}]

\* the node after construction: no group, nothing in flight
Fresh ==
    /\ groups = {}
    /\ group = NoGroup
    /\ raft = RawNodeNew
    /\ replica_cache = [cached |-> {}, stored |-> {}]
    /\ pc = "idle"
    /\ active = FALSE
    /\ gwr = None
    /\ multi_groups_apply = <<>>
    /\ apply_chan = <<>>
    /\ delivered = <<>>
    /\ propose_chan = <<>>
    /\ expected = <<>>
    /\ replies = <<>>
    /\ read_replies = <<>>
    /\ events = <<>>
    /\ facade = FacadeNew
    /\ ticker = ManualTickNew /\ transport = <<>>

Init == Fresh /\ budget \in Budgets /\ actor = ActorNew(<<>>)


\* ---------------------------------------------------------------------
\* The facade
\* ---------------------------------------------------------------------
ActorVars == <<groups, group, raft, replica_cache, pc, active, budget, gwr, multi_groups_apply, events>>
ApplyVars == <<apply_chan, delivered>>

\* MultiRaft::pre_propose_check
pre_propose_check(states, group_id) ==
    IF group_id \notin DOMAIN states
    THEN <<Reply("RaftGroup::Deleted", "facade", <<0, group_id>>)>>
    ELSE IF ~states[group_id].is_leader
    THEN <<Reply("Propose::NotLeader", "facade", <<NodeId, group_id, states[group_id].replica_id>>)>>
    ELSE <<>>

\* Sender::try_send on the propose channel
try_send(chan) ==
    IF Len(chan) >= ChanCap THEN <<Reply("Channel::Full", "facade", <<>>)>>
    ELSE <<>>

GroupLive == GroupId \in groups /\ group.status = "None"

\* the group states the facade shares with the actor: the replica id and
\* the role of the last soft state the actor has processed
shared_states ==
    IF GroupLive
    THEN [g \in {GroupId} |-> [replica_id |-> group.replica_id,
                               is_leader |-> raft.prev_ss.raft_state = "Leader"]]
    ELSE <<>>

NextReq == Len(replies) + 1

\* MultiRaft::write_non_block and MultiRaft::membership_change_non_block
Propose(kind, group_id, term, size) ==
    LET msg == [kind |-> kind, group_id |-> group_id, term |-> term, size |-> size, req |-> NextReq]
        err == pre_propose_check(shared_states, group_id)
        full == try_send(propose_chan)
    IN /\ budget.reqs > 0
       /\ budget' = [budget EXCEPT !.reqs = @ - 1]
       /\ expected' = Append(expected, 0)
       /\ IF err # <<>>
          THEN /\ replies' = Append(replies, err)
               /\ UNCHANGED propose_chan
          ELSE IF full # <<>>
          THEN /\ replies' = Append(replies, full)
               /\ UNCHANGED propose_chan
          ELSE /\ replies' = Append(replies, <<>>)
               /\ propose_chan' = Append(propose_chan, msg)
       /\ UNCHANGED <<OtherParts, groups, group, raft, replica_cache, pc, active, gwr, multi_groups_apply,
                       events, ApplyVars, read_replies>>

write_non_block == \E g \in {GroupId, BadGroupId}, t \in Terms, size \in 0..1 : Propose("write", g, t, size)

membership_change_non_block ==
    \E g \in {GroupId, BadGroupId}, t \in Terms, size \in 0..1 : Propose("membership", g, t, size)

\* MultiRaft::read_index_non_block: no pre-check
read_index_non_block ==
    LET uuid == Len(read_replies) + 1
        msg == [kind |-> "read_index", group_id |-> GroupId, uuid |-> uuid]
        full == try_send(propose_chan)
    IN /\ budget.reads > 0
       /\ budget' = [budget EXCEPT !.reads = @ - 1]
       /\ IF full # <<>>
          THEN /\ read_replies' = Append(read_replies, full)
               /\ UNCHANGED propose_chan
          ELSE /\ read_replies' = Append(read_replies, <<>>)
               /\ propose_chan' = Append(propose_chan, msg)
       /\ UNCHANGED <<OtherParts, groups, group, raft, replica_cache, pc, active, gwr, multi_groups_apply,
                       events, ApplyVars, expected, replies>>

\* ---------------------------------------------------------------------
\* RaftGroup: proposing
\* ---------------------------------------------------------------------
\* a pre-check of writes that takes an expected term of 0 for a term
pre_propose_write_rejects_unset_term(g, r, write_data) ==
    IF write_data.size = 0
    THEN <<Reply("BadParameter", "group", <<>>)>>
    ELSE IF ~is_leader(r)
    THEN <<Reply("Write::NotLeader", "group", <<g.node_id, g.group_id, g.replica_id>>)>>
    ELSE IF r.term > write_data.term
    THEN <<Reply("Stale", "group", <<write_data.term, r.term>>)>>
    ELSE <<>>

\* a pre-check of writes without the check of the expected term
pre_propose_write_accepts_stale(g, r, write_data) ==
    IF write_data.size = 0
    THEN <<Reply("BadParameter", "group", <<>>)>>
    ELSE IF ~is_leader(r)
    THEN <<Reply("Write::NotLeader", "group", <<g.node_id, g.group_id, g.replica_id>>)>>
    ELSE <<>>

\* RaftGroup::pre_propose_write
pre_propose_write(g, r, write_data) ==
    IF write_data.size = 0
    THEN <<Reply("BadParameter", "group", <<>>)>>
    ELSE IF ~is_leader(r)
    THEN <<Reply("Write::NotLeader", "group", <<g.node_id, g.group_id, g.replica_id>>)>>
    ELSE IF write_data.term # 0 /\ r.term > write_data.term
    THEN <<Reply("Stale", "group", <<write_data.term, r.term>>)>>
    ELSE <<>>

\* RaftGroup::pre_propose_membership
pre_propose_membership(g, r, data) ==
    IF data.group_id = 0
    THEN <<Reply("BadParameter", "group", <<>>)>>
    ELSE IF data.size = 0
    THEN <<Reply("BadParameter", "group", <<>>)>>
    ELSE IF ~is_leader(r)
    THEN <<Reply("Write::NotLeader", "group", <<g.node_id, g.group_id, g.replica_id>>)>>
    ELSE IF data.term # 0 /\ r.term > data.term
    THEN <<Reply("Stale", "group", <<data.term, r.term>>)>>
    ELSE <<>>

\* RawNode::propose and RawNode::propose_conf_change on a leader: the
\* entry is appended, or the proposal is refused or dropped
raft_propose(r, outcome, data) ==
    IF outcome = "append"
    THEN [r EXCEPT !.log = Append(@, [term |-> r.term, data |-> data])]
    ELSE r

\* a propose that queues a record next to the error callback of a refused proposal
propose_queues_refused(g, r, msg, outcome) ==
    LET err == IF msg.kind = "write" THEN pre_propose_write(g, r, msg)
               ELSE pre_propose_membership(g, r, msg)
        term == r.term
        next_index == last_index(r) + 1
        r2 == raft_propose(r, outcome, msg.req)
        index == last_index(r2) + 1
        queued == [g EXCEPT !.proposals =
                      Append(@, Proposal(next_index, term, msg.kind = "membership", msg.req))]
    IN IF err # <<>>
       THEN [raft |-> r, group |-> g, callback |-> err]
       ELSE IF outcome = "error"
       THEN [raft |-> r2, group |-> queued, callback |-> <<Reply("Raft", "group", <<>>)>>]
       ELSE IF next_index = index
       THEN [raft |-> r2, group |-> g,
             callback |-> <<Reply("UnexpectedIndex", "group", <<next_index, index - 1>>)>>]
       ELSE [raft |-> r2, group |-> queued, callback |-> <<>>]

\* a propose that records the index read after the library call
propose_records_index_after(g, r, msg, outcome) ==
    LET err == IF msg.kind = "write" THEN pre_propose_write(g, r, msg)
               ELSE pre_propose_membership(g, r, msg)
        term == r.term
        next_index == last_index(r) + 1
        r2 == raft_propose(r, outcome, msg.req)
        index == last_index(r2) + 1
    IN IF err # <<>>
       THEN [raft |-> r, group |-> g, callback |-> err]
       ELSE IF outcome = "error"
       THEN [raft |-> r2, group |-> g, callback |-> <<Reply("Raft", "group", <<>>)>>]
       ELSE IF next_index = index
       THEN [raft |-> r2, group |-> g,
             callback |-> <<Reply("UnexpectedIndex", "group", <<next_index, index - 1>>)>>]
       ELSE [raft |-> r2,
             group |-> [g EXCEPT !.proposals =
                           Append(@, Proposal(index, term, msg.kind = "membership", msg.req))],
             callback |-> <<>>]

\* RaftGroup::propose_write and RaftGroup::propose_membership_change
propose(g, r, msg, outcome) ==
    LET err == IF msg.kind = "write" THEN pre_propose_write(g, r, msg)
               ELSE pre_propose_membership(g, r, msg)
        term == r.term
        next_index == last_index(r) + 1
        r2 == raft_propose(r, outcome, msg.req)
        index == last_index(r2) + 1
    IN IF err # <<>>
       THEN [raft |-> r, group |-> g, callback |-> err]
       ELSE IF outcome = "error"
       THEN [raft |-> r2, group |-> g, callback |-> <<Reply("Raft", "group", <<>>)>>]
       ELSE IF next_index = index
       THEN [raft |-> r2, group |-> g,
             callback |-> <<Reply("UnexpectedIndex", "group", <<next_index, index - 1>>)>>]
       ELSE [raft |-> r2,
             group |-> [g EXCEPT !.proposals =
                           Append(@, Proposal(next_index, term, msg.kind = "membership", msg.req))],
             callback |-> <<>>]

\* the loop takes the next event once the ready work of the activity set is done
ActorIdle == pc = "idle" /\ ~(active /\ GroupLive /\ has_ready(raft))

\* after an event the group is in the activity set; it has work if it has a Ready
Activity == GroupLive /\ has_ready(raft)

\* the actor takes a write or membership proposal from the propose channel and
\* routes it to the addressed group; an error callback is invoked at once
handle_propose ==
    /\ ActorIdle
    /\ propose_chan # <<>>
    /\ Head(propose_chan).kind # "read_index"
    /\ LET msg == Head(propose_chan) IN
       /\ propose_chan' = Tail(propose_chan)
       /\ IF ~GroupLive
          THEN /\ replies' = Send(replies, msg.req, Reply("RaftGroup::NotExist", "actor", <<NodeId, msg.group_id>>))
               /\ UNCHANGED <<group, raft, expected>>
          ELSE \E outcome \in {"append", "error", "drop"} :
               LET res == propose(group, raft, msg, outcome) IN
               /\ outcome = "append" => last_index(raft) < MaxIndex
               /\ raft' = res.raft
               /\ group' = res.group
               /\ replies' = IF res.callback # <<>>
                             THEN Send(replies, msg.req, res.callback[1]) ELSE replies
               /\ expected' = IF res.callback # <<>> THEN expected
                              ELSE [expected EXCEPT ![msg.req] = msg.term]
    /\ UNCHANGED <<OtherParts, groups, replica_cache, pc, budget, gwr, multi_groups_apply, events,
                   ApplyVars, read_replies>>
    /\ active' = Activity'

\* RawNode::read_index
raft_read_index(r, uuid) ==
    IF r.state = "Leader"
    THEN IF r.committed > 0 /\ r.log[r.committed].term = r.term
         THEN [r EXCEPT !.pending_reads = Append(@, [uuid |-> uuid, index |-> r.committed])]
         ELSE r
    ELSE IF r.leader_id # NO_LEADER
    THEN [r EXCEPT !.pending_reads = Append(@, [uuid |-> uuid, index |-> 0])]
    ELSE r

\* RaftGroup::read_index_propose
read_index_propose(g, r, msg) ==
    [raft |-> raft_read_index(r, msg.uuid),
     group |-> [g EXCEPT !.read_index_queue =
                   Append(@, [uuid |-> msg.uuid, read_index |-> <<>>])]]

handle_read_index ==
    /\ ActorIdle
    /\ propose_chan # <<>>
    /\ Head(propose_chan).kind = "read_index"
    /\ LET msg == Head(propose_chan) IN
       /\ propose_chan' = Tail(propose_chan)
       /\ IF ~GroupLive
          THEN /\ read_replies' = Send(read_replies, msg.uuid, Reply("RaftGroup::NotExist", "actor", <<NodeId, msg.group_id>>))
               /\ UNCHANGED <<group, raft>>
          ELSE LET res == read_index_propose(group, raft, msg) IN
               /\ raft' = res.raft
               /\ group' = res.group
               /\ UNCHANGED read_replies
    /\ UNCHANGED <<OtherParts, groups, replica_cache, pc, budget, gwr, multi_groups_apply, events,
                   ApplyVars, expected, replies>>
    /\ active' = Activity'


\* ---------------------------------------------------------------------
\* The replica cache
\* ---------------------------------------------------------------------
ReplicaDesc(node_id, replica_id) == [node_id |-> node_id, replica_id |-> replica_id]

\* the node a replica of the group lives on
\* the replica id a removed group is created again with on the local node
RecreatedReplica == NodeId + 2

NodeOf(replica_id) == IF replica_id = RecreatedReplica THEN NodeId ELSE replica_id

\* ReplicaCache::replica_desc and ReplicaCache::replica_for_node: a hit is
\* answered from the cache, a miss goes to the storage, which may fail
replica_desc(cache, replica_id, fault) ==
    IF replica_id \in cache.cached
    THEN [err |-> FALSE, desc |-> <<ReplicaDesc(NodeOf(replica_id), replica_id)>>, cache |-> cache]
    ELSE IF fault
    THEN [err |-> TRUE, desc |-> <<>>, cache |-> cache]
    ELSE IF replica_id \in cache.stored
    THEN [err |-> FALSE, desc |-> <<ReplicaDesc(NodeOf(replica_id), replica_id)>>,
          cache |-> [cache EXCEPT !.cached = @ \cup {replica_id}]]
    ELSE [err |-> FALSE, desc |-> <<>>, cache |-> cache]

\* a cache_replica_desc that does not write the descriptor through to the storage
cache_replica_desc_unsynced(cache, desc, fault) ==
    IF fault THEN [err |-> TRUE, cache |-> cache]
    ELSE [err |-> FALSE,
          cache |-> [cached |-> cache.cached \cup {desc.replica_id},
                     stored |-> cache.stored]]

\* ReplicaCache::cache_replica_desc with sync = true
cache_replica_desc(cache, desc, fault) ==
    IF fault THEN [err |-> TRUE, cache |-> cache]
    ELSE [err |-> FALSE,
          cache |-> [cached |-> cache.cached \cup {desc.replica_id},
                     stored |-> cache.stored \cup {desc.replica_id}]]

\* ReplicaCache::replica_for_node: the descriptor the cache, or on a miss
\* the storage, holds for the node; an entry never expires
replica_for_node(cache, node_id, fault) ==
    LET hit == {r \in cache.cached : NodeOf(r) = node_id}
        held == {r \in cache.stored : NodeOf(r) = node_id}
        first(s) == CHOOSE r \in s : \A o \in s : r <= o
    IN IF hit # {}
       THEN [err |-> FALSE, desc |-> <<ReplicaDesc(node_id, first(hit))>>, cache |-> cache]
       ELSE IF fault
       THEN [err |-> TRUE, desc |-> <<>>, cache |-> cache]
       ELSE IF held # {}
       THEN [err |-> FALSE, desc |-> <<ReplicaDesc(node_id, first(held))>>,
             cache |-> [cache EXCEPT !.cached = @ \cup {first(held)}]]
       ELSE [err |-> FALSE, desc |-> <<>>, cache |-> cache]

\* ---------------------------------------------------------------------
\* RaftGroup: the ready cycle
\* ---------------------------------------------------------------------
LeaderElectionEvent(group_id, leader_id, replica_id) ==
    [group_id |-> group_id, leader_id |-> leader_id, replica_id |-> replica_id]

\* RaftGroup::handle_leader_change
handle_leader_change(g, cache, ev, ss, fault) ==
    LET look == replica_desc(cache, ss.leader_id, fault)
        desc == IF look.desc # <<>> THEN look.desc[1] ELSE ReplicaDesc(NO_NODE, ss.leader_id)
    IN IF look.err
       THEN [group |-> g, cache |-> look.cache, events |-> ev]
       ELSE [group |-> [g EXCEPT !.leader = desc],
             cache |-> look.cache,
             events |-> Append(ev, LeaderElectionEvent(g.group_id, ss.leader_id, desc.replica_id))]

\* RaftGroup::handle_soft_state_change
handle_soft_state_change(g, cache, ev, ss, fault) ==
    IF ss.leader_id # 0 /\ ss.leader_id # g.leader.replica_id
    THEN handle_leader_change(g, cache, ev, ss, fault)
    ELSE [group |-> g, cache |-> cache, events |-> ev]

\* an advance_reads that takes any read state for the state of every record
advance_reads_any_uuid(queue, rss) ==
    [k \in 1..Len(queue) |->
        IF rss # <<>> THEN [queue[k] EXCEPT !.read_index = <<rss[1].index>>] ELSE queue[k]]

\* ReadIndexQueue::advance_reads: the records the read states name are ready
advance_reads(queue, rss) ==
    [k \in 1..Len(queue) |->
        LET mine == SelectSeq(rss, LAMBDA rs : rs.uuid = queue[k].uuid)
        IN IF mine # <<>> THEN [queue[k] EXCEPT !.read_index = <<mine[1].index>>] ELSE queue[k]]

\* ReadIndexQueue::pop_front, as often as it answers: the ready records at the front
RECURSIVE ready_front(_)
ready_front(queue) ==
    IF queue = <<>> \/ Head(queue).read_index = <<>> THEN <<>>
    ELSE <<Head(queue)>> \o ready_front(Tail(queue))

\* RaftGroup::on_reads_ready: every popped record is answered Ok
on_reads_ready(g, rr, rss, applied) ==
    LET q == advance_reads(g.read_index_queue, rss)
        popped == ready_front(q)
    IN [group |-> [g EXCEPT !.read_index_queue = SubSeq(q, Len(popped) + 1, Len(q))],
        read_replies |->
            [u \in DOMAIN rr |->
                LET mine == SelectSeq(popped, LAMBDA p : p.uuid = u)
                IN rr[u] \o [k \in 1..Len(mine) |->
                       Reply("Ok", "group", <<mine[k].read_index[1], applied>>)]]]

\* RaftGroup::handle_committed_entries
handle_committed_entries(g, r, rs, mga, replica_id, entries) ==
    LET last_term == entries[Len(entries)].term
        g1 == maybe_update_committed_term(g, last_term)
        ca == create_apply(g1, r, replica_id, entries)
    IN [group |-> [g1 EXCEPT !.proposals = ca.queue],
        replies |-> SendAll(rs, ca.stale,
                            [k \in 1..Len(ca.stale) |-> Reply("Stale", "queue", <<ca.stale[k].term, r.term>>)]),
        multi_groups_apply |-> insert(mga, g.group_id, ca.apply)]

Applied == IF delivered = <<>> THEN 0 ELSE delivered[Len(delivered)].index

Faults == {"none", "replica_for_node", "cache_replica_desc", "group_storage", "replica_desc"}

\* the storage calls of a handler fail or not; a failure is counted and named
Failing(fault, failed) ==
    /\ fault # "none" => budget.faults > 0 /\ failed
    /\ budget' = IF fault # "none" THEN [budget EXCEPT !.faults = @ - 1, !.failed = fault] ELSE budget

\* a handle_ready that goes on without the group storage
ready_aborts_on_replica_only(repair_err, fault) == repair_err

\* the early returns of handle_ready: the replica descriptor could not be
\* looked up or repaired, or the group storage could not be obtained
ready_aborts(repair_err, fault) == repair_err \/ fault = "group_storage"

\* RaftGroup::handle_ready
handle_ready ==
    /\ pc = "idle"
    /\ active
    /\ GroupLive
    /\ has_ready(raft)
    /\ \E fault \in Faults :
       LET rd == ready(raft)
           r1 == AfterReady(raft)
           look == replica_for_node(replica_cache, group.node_id, fault = "replica_for_node")
           \* assert_eq!(replica_desc.replica_id, self.raft_group.raft.id)
           assert_fails == ~look.err /\ look.desc # <<>> /\ look.desc[1].replica_id # raft.id
           repair == IF look.err \/ look.desc # <<>>
                     THEN [err |-> look.err, cache |-> look.cache]
                     ELSE cache_replica_desc(look.cache, ReplicaDesc(group.node_id, raft.id),
                                             fault = "cache_replica_desc")
           abort == ready_aborts(repair.err, fault)
           s1 == IF rd.ss # <<>>
                 THEN handle_soft_state_change(group, repair.cache, events, rd.ss[1],
                                               fault = "replica_desc")
                 ELSE [group |-> group, cache |-> repair.cache, events |-> events]
           s2 == IF rd.read_states # <<>>
                 THEN on_reads_ready(s1.group, read_replies, rd.read_states, Applied)
                 ELSE [group |-> s1.group, read_replies |-> read_replies]
           s3 == IF rd.committed_entries # <<>>
                 THEN handle_committed_entries(s2.group, r1, replies, multi_groups_apply,
                                               raft.id, rd.committed_entries)
                 ELSE [group |-> s2.group, replies |-> replies,
                       multi_groups_apply |-> multi_groups_apply]
       IN /\ assert_fails => fault = "none"
          /\ Failing(fault, \/ fault = "replica_for_node" /\ look.err
                            \/ fault = "cache_replica_desc" /\ repair.err /\ ~look.err
                            \/ fault = "group_storage" /\ ~repair.err
                            \/ fault = "replica_desc" /\ ~abort /\ rd.ss # <<>>
                               /\ s1.group = group /\ s1.events = events
                               /\ rd.ss[1].leader_id # 0
                               /\ rd.ss[1].leader_id # group.leader.replica_id)
          /\ IF assert_fails
             THEN /\ pc' = "panicked"
                  /\ replica_cache' = look.cache
                  /\ UNCHANGED <<raft, active, group, events, read_replies, replies,
                                 multi_groups_apply, gwr, transport>>
             ELSE IF abort
             THEN /\ raft' = r1
                  /\ replica_cache' = repair.cache
                  /\ active' = FALSE
                  /\ UNCHANGED <<group, events, read_replies, replies, multi_groups_apply, gwr, pc,
                                 transport>>
             ELSE /\ raft' = r1
                  /\ transport' = transport \o rd.messages
                  /\ replica_cache' = s1.cache
                  /\ events' = s1.events
                  /\ read_replies' = s2.read_replies
                  /\ group' = s3.group
                  /\ replies' = s3.replies
                  /\ multi_groups_apply' = s3.multi_groups_apply
                  /\ gwr' = [replica_id |-> raft.id, ready |-> <<rd>>, light_ready |-> <<>>]
                  /\ pc' = "write"
                  /\ UNCHANGED active
    /\ UNCHANGED <<actor, facade, ticker, groups, ApplyVars, propose_chan, expected>>

\* RaftGroup::handle_ready_write: the Ready's entries are persisted and the
\* library is advanced, which yields the LightReady
handle_ready_write ==
    /\ pc = "write"
    /\ LET rd == gwr.ready[1]
           r1 == AfterAdvanceAppend(raft, rd)
       IN /\ gwr' = [gwr EXCEPT !.ready = <<>>, !.light_ready = <<LightReady(r1)>>]
          /\ raft' = AfterLightReady(r1)
          /\ transport' = transport \o rd.persisted_messages
    /\ pc' = "light"
    /\ UNCHANGED <<actor, facade, ticker, groups, group, replica_cache, active, budget, multi_groups_apply, events,
                   ApplyVars, propose_chan, expected, replies, read_replies>>

\* the apply batches collected in the pass are handed to the apply side
send_applys(chan, mga) == IF GroupId \in DOMAIN mga THEN Append(chan, mga[GroupId]) ELSE chan

\* RaftGroup::handle_light_ready, and the end of the loop pass
handle_light_ready ==
    /\ pc = "light"
    /\ \E fault \in {"none", "group_storage"} :
       LET light_ready == gwr.light_ready[1]
           s == IF light_ready.committed_entries # <<>> /\ fault = "none"
                THEN handle_committed_entries(group, raft, replies, multi_groups_apply,
                                              gwr.replica_id, light_ready.committed_entries)
                ELSE [group |-> group, replies |-> replies,
                      multi_groups_apply |-> multi_groups_apply]
       IN /\ Failing(fault, light_ready.committed_entries # <<>>)
          /\ group' = s.group
          /\ replies' = s.replies
          /\ apply_chan' = send_applys(apply_chan, s.multi_groups_apply)
    /\ multi_groups_apply' = <<>>
    /\ gwr' = None
    /\ pc' = "idle"
    /\ active' = FALSE
    /\ transport' = <<>>
    /\ UNCHANGED <<actor, facade, ticker, groups, raft, replica_cache, events, delivered,
                   propose_chan, expected, read_replies>>


\* ---------------------------------------------------------------------
\* The apply side
\* ---------------------------------------------------------------------
\* the apply actor merges the two batches at the front of its channel
apply_batch ==
    /\ Len(apply_chan) >= 2
    /\ can_batch(apply_chan[1], apply_chan[2], max_apply_batch_size)
    /\ apply_chan' = <<try_batch(apply_chan[1], apply_chan[2])>> \o SubSeq(apply_chan, 3, Len(apply_chan))
    /\ UNCHANGED <<OtherParts, ActorVars, delivered, propose_chan, expected, replies, read_replies>>

\* the state machine applies the batch at the front: every entry in order,
\* then Ok on the reply channel of every proposal of the batch
apply ==
    /\ apply_chan # <<>>
    /\ LET b == Head(apply_chan) IN
       /\ delivered' = delivered \o b.entries
       /\ replies' = SendAll(replies, b.proposals,
                             [k \in 1..Len(b.proposals) |->
                                 Reply("Ok", "apply", <<b.proposals[k].index, b.proposals[k].term>>)])
    /\ apply_chan' = Tail(apply_chan)
    /\ UNCHANGED <<OtherParts, ActorVars, propose_chan, expected, read_replies>>

\* ---------------------------------------------------------------------
\* The actor's other handlers
\* ---------------------------------------------------------------------
RestVars == <<ApplyVars, propose_chan, expected, replies, read_replies>>

\* the replica ids a create_group request names: the local replica for
\* the first creation, and for a group that was removed the ids the
\* environment creates it again with, once
ReplicasToCreate ==
    IF group.replica_id = 0 THEN {LocalReplica}
    ELSE IF "recreate" \in DOMAIN budget THEN budget.recreate
    ELSE {}

\* create_group: the handle of the group and its RawNode
create_group ==
    /\ ActorIdle
    /\ GroupId \notin groups
    /\ \E replica_id \in ReplicasToCreate :
          /\ group' = [NoGroup EXCEPT !.replica_id = replica_id]
          /\ raft' = [RawNodeNew EXCEPT !.id = replica_id]
    /\ groups' = groups \cup {GroupId}
    /\ budget' = IF group.replica_id = 0 THEN budget ELSE [budget EXCEPT !.recreate = {}]
    /\ UNCHANGED <<OtherParts, replica_cache, pc, gwr, multi_groups_apply, events, RestVars>>
    /\ active' = Activity'

\* a removal that answers the pending proposals and leaves them queued
remove_pending_proposals_undrained(g, rs) ==
    [group |-> g,
     replies |-> SendAll(rs, g.proposals,
                         [k \in 1..Len(g.proposals) |->
                             Reply("RaftGroup::Deleted", "remove", <<g.group_id, g.replica_id>>)])]

\* RaftGroup::remove_pending_proposals
remove_pending_proposals(g, rs) ==
    [group |-> [g EXCEPT !.proposals = <<>>],
     replies |-> SendAll(rs, g.proposals,
                         [k \in 1..Len(g.proposals) |->
                             Reply("RaftGroup::Deleted", "remove", <<g.group_id, g.replica_id>>)])]

\* remove_group: the handle is marked, its pending proposals are answered
remove_group ==
    /\ ActorIdle
    /\ GroupLive
    /\ LET res == remove_pending_proposals([group EXCEPT !.status = "Delete"], replies) IN
       /\ group' = res.group
       /\ replies' = res.replies
    /\ active' = FALSE
    /\ UNCHANGED <<OtherParts, groups, raft, replica_cache, pc, budget, gwr, multi_groups_apply, events,
                   ApplyVars, propose_chan, expected, read_replies>>

\* the next loop pass drops the handles marked Delete
purge_deleted ==
    /\ ActorIdle
    /\ GroupId \in groups
    /\ group.status = "Delete"
    /\ groups' = groups \ {GroupId}
    /\ UNCHANGED <<OtherParts, group, raft, replica_cache, pc, active, budget, gwr, multi_groups_apply, events,
                   RestVars>>

\* ---------------------------------------------------------------------
\* The library's steps on the messages of the peers, and on campaign
\* ---------------------------------------------------------------------
LibVars == <<OtherParts, groups, group, replica_cache, pc, budget, gwr, multi_groups_apply, events, RestVars>>

\* tick: every group joins the activity set
tick ==
    /\ ActorIdle
    /\ ~active
    /\ Activity
    /\ active' = TRUE
    /\ UNCHANGED <<raft, LibVars>>


Noop(term) == [term |-> term, data |-> 0]

become_leader(r) ==
    [r EXCEPT !.state = "Leader", !.leader_id = r.id, !.log = Append(@, Noop(r.term)),
              !.pending_reads = <<>>]

\* RawNode::campaign
campaign ==
    /\ ActorIdle
    /\ GroupLive
    /\ raft.state # "Leader"
    /\ raft.term < budget.terms
    /\ raft' = [raft EXCEPT !.state = "Candidate", !.term = @ + 1, !.leader_id = NO_LEADER,
                            !.pending_reads = <<>>]
    /\ UNCHANGED LibVars
    /\ active' = Activity'

\* step: the votes of a quorum arrive
step_vote_response ==
    /\ ActorIdle
    /\ GroupLive
    /\ raft.state = "Candidate"
    /\ Len(raft.log) < MaxIndex
    /\ raft' = become_leader(raft)
    /\ UNCHANGED LibVars
    /\ active' = Activity'

\* step: a message of a higher term, or of the leader of the current term
step_higher_term ==
    /\ ActorIdle
    /\ GroupLive
    /\ \E t \in 1..budget.terms, l \in {NO_LEADER, PeerReplica} :
       /\ \/ t > raft.term
          \/ t = raft.term /\ raft.state # "Leader" /\ raft.leader_id = NO_LEADER /\ l # NO_LEADER
       /\ raft' = [raft EXCEPT !.state = "Follower", !.term = t, !.leader_id = l,
                               !.pending_reads = <<>>]
    /\ UNCHANGED LibVars
    /\ active' = Activity'

\* step: an append of the leader; a conflicting suffix is cut, the commit
\* index follows the leader's
step_append ==
    /\ ActorIdle
    /\ GroupLive
    /\ raft.state = "Follower"
    /\ raft.leader_id = PeerReplica
    /\ \E k \in raft.committed..Len(raft.log), n \in 0..1 :
       LET log1 == SubSeq(raft.log, 1, k) \o (IF n = 1 THEN <<Noop(raft.term)>> ELSE <<>>) IN
       /\ k < Len(raft.log) => n = 1 /\ raft.log[k + 1].term < raft.term
       /\ Len(log1) <= MaxIndex
       /\ \E c \in raft.committed..Len(log1) :
          /\ log1 # raft.log \/ c # raft.committed
          /\ raft' = [raft EXCEPT !.log = log1, !.committed = c,
                                  !.persisted = Min(@, k)]
    /\ UNCHANGED LibVars
    /\ active' = Activity'

\* step: the acknowledgements of a quorum arrive at the leader
step_append_response ==
    /\ ActorIdle
    /\ GroupLive
    /\ raft.state = "Leader"
    /\ \E c \in (raft.committed + 1)..raft.persisted :
       /\ raft.log[c].term = raft.term
       /\ raft' = [raft EXCEPT !.committed = c]
    /\ UNCHANGED LibVars
    /\ active' = Activity'

\* step: the read index of a pending read is confirmed: the oldest one on
\* the leader, whichever response of the leader arrives on a follower
step_read_index_response ==
    /\ ActorIdle
    /\ GroupLive
    /\ raft.pending_reads # <<>>
    /\ \E i \in raft.committed..MaxIndex, k \in DOMAIN raft.pending_reads :
       LET rs == raft.pending_reads[k] IN
       /\ raft.state = "Leader" => i = rs.index /\ k = 1
       /\ raft' = [raft EXCEPT !.pending_reads =
                                  SubSeq(@, 1, k - 1) \o SubSeq(@, k + 1, Len(@)),
                               !.read_states = Append(@, [uuid |-> rs.uuid,
                                                          index |-> i])]
    /\ UNCHANGED LibVars
    /\ active' = Activity'

Next ==
    \/ write_non_block
    \/ membership_change_non_block
    \/ handle_propose
    \/ handle_ready
    \/ handle_ready_write
    \/ handle_light_ready
    \/ apply_batch
    \/ apply
    \/ create_group
    \/ remove_group
    \/ purge_deleted
    \/ tick
    \/ campaign
    \/ step_vote_response
    \/ step_higher_term
    \/ step_append
    \/ step_append_response

Spec == Init /\ [][Next]_vars

\* the same node with read-index requests in place of writes
NextRead ==
    \/ read_index_non_block
    \/ handle_read_index
    \/ step_read_index_response
    \/ handle_ready
    \/ handle_ready_write
    \/ handle_light_ready
    \/ apply_batch
    \/ apply
    \/ create_group
    \/ remove_group
    \/ purge_deleted
    \/ tick
    \/ campaign
    \/ step_vote_response
    \/ step_higher_term
    \/ step_append
    \/ step_append_response

InitRead ==
    /\ Fresh
    /\ budget = [reqs |-> 0, reads |-> MaxRead, faults |-> MaxFaults, failed |-> "none", terms |-> MaxTerm]
    /\ actor = ActorNew(<<>>)

SpecRead == InitRead /\ [][NextRead]_vars

\* a node whose group is removed and created again, with the replica id
\* it had or with another one
NextRecreate ==
    \/ create_group
    \/ remove_group
    \/ purge_deleted
    \/ campaign
    \/ step_vote_response
    \/ step_higher_term
    \/ handle_ready
    \/ handle_ready_write
    \/ handle_light_ready

InitRecreate ==
    /\ Fresh
    /\ budget = [reqs |-> 0, reads |-> 0, faults |-> MaxFaults, failed |-> "none", terms |-> MaxTerm,
                 recreate |-> {LocalReplica, RecreatedReplica}]
    /\ actor = ActorNew(<<>>)

SpecRecreate == InitRecreate /\ [][NextRecreate]_vars

\* a group that is never removed, with one request and no storage failure
InitLive ==
    /\ Fresh
    /\ budget = [reqs |-> 1, reads |-> 0, faults |-> 0, failed |-> "none", terms |-> MaxTerm]
    /\ actor = ActorNew(<<>>)

NextLive ==
    \/ write_non_block
    \/ membership_change_non_block
    \/ handle_propose
    \/ handle_ready
    \/ handle_ready_write
    \/ handle_light_ready
    \/ apply_batch
    \/ apply
    \/ create_group
    \/ campaign
    \/ step_vote_response
    \/ step_higher_term
    \/ step_append
    \/ step_append_response

\* the loop of the node actor and the apply side run whenever they have
\* work; the peers and the callers of the facade are not obliged to act
Fairness ==
    /\ WF_vars(handle_propose)
    /\ WF_vars(handle_ready)
    /\ WF_vars(handle_ready_write)
    /\ WF_vars(handle_light_ready)
    /\ WF_vars(apply)

SpecLive == InitLive /\ [][NextLive]_vars /\ Fairness

\* the node with a read-index request and proposals in flight together
InitMixed ==
    /\ Fresh
    /\ budget = [reqs |-> MaxReq, reads |-> MaxRead, faults |-> 0, failed |-> "none", terms |-> MaxTerm]
    /\ actor = ActorNew(<<>>)

NextMixed ==
    \/ write_non_block
    \/ membership_change_non_block
    \/ read_index_non_block
    \/ handle_propose
    \/ handle_read_index
    \/ handle_ready
    \/ handle_ready_write
    \/ handle_light_ready
    \/ create_group
    \/ campaign
    \/ step_vote_response
    \/ step_higher_term

SpecMixed == InitMixed /\ [][NextMixed]_vars

\* a leader that is deposed and elected again: the run reaches a third
\* term, and clients write with no expected term
InitReelect ==
    /\ Fresh
    /\ budget = [reqs |-> ReelectReqs, reads |-> 0, faults |-> 0, failed |-> "none",
                 terms |-> ReelectTerms]
    /\ actor = ActorNew(<<>>)

write_no_expected_term == Propose("write", GroupId, 0, 1)

NextReelect ==
    \/ write_no_expected_term
    \/ handle_propose
    \/ handle_ready
    \/ handle_ready_write
    \/ handle_light_ready
    \/ create_group
    \/ campaign
    \/ step_vote_response
    \/ step_higher_term
    \/ step_append

SpecReelect == InitReelect /\ [][NextReelect]_vars

\* several read-index requests in flight on one replica
InitReads ==
    /\ Fresh
    /\ budget = [reqs |-> 0, reads |-> ReadsInFlight, faults |-> 0, failed |-> "none",
                 terms |-> MaxTerm]
    /\ actor = ActorNew(<<>>)

NextReads ==
    \/ read_index_non_block
    \/ handle_read_index
    \/ step_read_index_response
    \/ handle_ready
    \/ handle_ready_write
    \/ handle_light_ready
    \/ create_group
    \/ campaign
    \/ step_vote_response
    \/ step_higher_term
    \/ step_append_response

SpecReads == InitReads /\ [][NextReads]_vars

\* ---------------------------------------------------------------------
\* RaftGroup::handle_ready_write, call by call
\* ---------------------------------------------------------------------
\* the Ready of a replica with what handle_ready_write persists: a snapshot
\* and a hard state when the library sends one, and the entries not yet persisted
ReadyToWrite(r, snapshot, hs) ==
    [ss |-> ready(r).ss, persisted_messages |-> ready(r).persisted_messages,
     last |-> ready(r).last,
     snapshot |-> snapshot, hs |-> hs,
     entries |-> SubSeq(r.log, r.persisted + 1, Len(r.log))]

\* a handle_ready_write that sends the persisted messages before it persists
handle_ready_write_sends_first(rd) ==
    (IF rd.persisted_messages # <<>> THEN <<"send_messages">> ELSE <<>>)
    \o (IF rd.snapshot # <<>> THEN <<"apply_snapshot">> ELSE <<>>)
    \o (IF rd.entries # <<>> THEN <<"append_entries">> ELSE <<>>)
    \o (IF rd.hs # <<>> THEN <<"set_hardstate">> ELSE <<>>)

\* the calls handle_ready_write makes on the storage and the transport
\* before advance_append, in the order of its statements
handle_ready_write_calls(rd) ==
    (IF rd.snapshot # <<>> THEN <<"apply_snapshot">> ELSE <<>>)
    \o (IF rd.entries # <<>> THEN <<"append_entries">> ELSE <<>>)
    \o (IF rd.hs # <<>> THEN <<"set_hardstate">> ELSE <<>>)
    \o (IF rd.persisted_messages # <<>> THEN <<"send_messages">> ELSE <<>>)

StorageCalls == {"apply_snapshot", "append_entries", "set_hardstate"}

\* the calls made so far are in transport; the next one, if any
NextCall ==
    LET calls == handle_ready_write_calls(gwr.ready[1])
    IN IF Len(transport) < Len(calls) THEN <<calls[Len(transport) + 1]>> ELSE <<>>

Writing == pc = "write" /\ gwr # None /\ gwr.ready # <<>>

ReadyWriteFrame ==
    UNCHANGED <<actor, facade, ticker, groups, group, replica_cache, active, budget,
                multi_groups_apply, events, ApplyVars, propose_chan, expected, replies,
                read_replies>>

\* gs.apply_snapshot, gs.append_entries, gs.set_hardstate return Ok
ready_write_persist ==
    /\ Writing
    /\ NextCall # <<>>
    /\ NextCall[1] \in StorageCalls
    /\ transport' = Append(transport, NextCall[1])
    /\ UNCHANGED <<raft, gwr, pc>>
    /\ ReadyWriteFrame

\* the storage returns an error: unwrap() and panic!() end the actor
ready_write_panic ==
    /\ Writing
    /\ NextCall # <<>>
    /\ NextCall[1] \in StorageCalls
    /\ pc' = "panicked"
    /\ UNCHANGED <<raft, gwr, transport>>
    /\ ReadyWriteFrame

\* transport::send_messages with the persisted messages
ready_write_send ==
    /\ Writing
    /\ NextCall = <<"send_messages">>
    /\ transport' = Append(transport, "send_messages")
    /\ UNCHANGED <<raft, gwr, pc>>
    /\ ReadyWriteFrame

\* raft_group.advance_append(ready); gwr.light_ready = Some(light_ready)
ready_write_advance ==
    /\ Writing
    /\ NextCall = <<>>
    /\ LET rd == gwr.ready[1]
           r1 == AfterAdvanceAppend(raft, rd)
       IN /\ gwr' = [gwr EXCEPT !.ready = <<>>, !.light_ready = <<LightReady(r1)>>]
          /\ raft' = AfterLightReady(r1)
    /\ transport' = Append(transport, "advance_append")
    /\ pc' = "light"
    /\ ReadyWriteFrame

\* a follower or candidate replica whose handle_ready has queued a write
\* request: up to MaxWriteLog entries of term 1, some of them persisted
ReplicasToWrite ==
    {[RawNodeNew EXCEPT !.state = st, !.term = 1, !.leader_id = l,
                        !.log = [k \in 1..n |-> [term |-> 1, data |-> 0]],
                        !.persisted = p, !.committed = c, !.since = Min(c, p),
                        !.prev_ss = [leader_id |-> pl, raft_state |-> "Follower"],
                        !.records = 1] :
        st \in {"Follower"}, l \in {NO_LEADER, PeerReplica}, pl \in {NO_LEADER, PeerReplica},
        n \in 0..MaxWriteLog, p \in 0..MaxWriteLog, c \in 0..MaxWriteLog}

InitReadyWrite ==
    /\ groups = {GroupId}
    /\ group = [NoGroup EXCEPT !.replica_id = LocalReplica]
    /\ raft \in {r \in ReplicasToWrite :
                    /\ r.persisted <= Len(r.log)
                    /\ r.committed <= Len(r.log)
                    /\ (r.leader_id = NO_LEADER => r.prev_ss.leader_id = NO_LEADER)}
    /\ replica_cache = [cached |-> {LocalReplica}, stored |-> {LocalReplica}]
    /\ pc = "write"
    /\ active = TRUE
    /\ \E snapshot \in {<<>>, <<"snapshot">>}, hs \in {<<>>, <<"hs">>} :
          gwr = [replica_id |-> raft.id, ready |-> <<ReadyToWrite(raft, snapshot, hs)>>,
                 light_ready |-> <<>>]
    /\ multi_groups_apply = <<>>
    /\ apply_chan = <<>>
    /\ delivered = <<>>
    /\ propose_chan = <<>>
    /\ expected = <<>>
    /\ replies = <<>>
    /\ read_replies = <<>>
    /\ events = <<>>
    /\ facade = FacadeNew
    /\ ticker = ManualTickNew
    /\ transport = <<>>
    /\ budget = [reqs |-> 0, reads |-> 0, faults |-> 0, failed |-> "none", terms |-> MaxTerm]
    /\ actor = ActorNew(<<>>)

NextReadyWrite ==
    \/ ready_write_persist
    \/ ready_write_panic
    \/ ready_write_send
    \/ ready_write_advance

SpecReadyWrite == InitReadyWrite /\ [][NextReadyWrite]_vars

\* ---------------------------------------------------------------------
\* ApplyData::try_batch on two batches of one replica
\* ---------------------------------------------------------------------
\* the assertions at the head of try_batch
try_batch_asserts(this, that) ==
    /\ this.replica_id = that.replica_id
    /\ this.group_id = that.group_id
    /\ that.term >= this.term
    /\ that.commit_index >= this.commit_index
    /\ that.commit_term >= this.commit_term

\* ApplyData::try_batch(&mut self, &mut that, max_batch_size): the value
\* returned, and self and that after the call; Vec::append empties that's vectors
ApplyData_try_batch(this, that, max_batch_size) ==
    IF can_batch(this, that, max_batch_size)
    THEN [merged |-> TRUE, this |-> try_batch(this, that),
          that |-> [that EXCEPT !.entries = <<>>, !.proposals = <<>>]]
    ELSE [merged |-> FALSE, this |-> this, that |-> that]

\* a batch of n entries after index first, of one term, with a proposal
\* record for its last entry or none
BatchOf(first, n, term, matched) ==
    LET entries == [k \in 1..n |-> [index |-> first + k, term |-> term, data |-> first + k]]
    IN [replica_id |-> LocalReplica, group_id |-> GroupId, term |-> term,
        commit_index |-> first + n, commit_term |-> term,
        entries |-> entries, entries_size |-> entries_size(entries),
        proposals |-> IF matched /\ n > 0
                      THEN <<Proposal(first + n, term, FALSE, first + n)>> ELSE <<>>]

\* two batches wait at the front of the apply channel; the batch budget of
\* the configuration is part of the run
InitBatch ==
    /\ groups = {GroupId}
    /\ group = [NoGroup EXCEPT !.replica_id = LocalReplica]
    /\ raft = RawNodeNew
    /\ replica_cache = [cached |-> {LocalReplica}, stored |-> {LocalReplica}]
    /\ active = FALSE
    /\ gwr = None
    /\ multi_groups_apply = <<>>
    /\ delivered = <<>>
    /\ propose_chan = <<>>
    /\ expected = <<>>
    /\ replies = <<>>
    /\ read_replies = <<>>
    /\ events = <<>>
    /\ facade = FacadeNew
    /\ ticker = ManualTickNew
    /\ transport = <<>>
    /\ \E a \in 0..MaxBatchLen, b \in 0..MaxBatchLen, t1 \in 1..MaxTerm, t2 \in 1..MaxTerm,
          m1 \in BOOLEAN, m2 \in BOOLEAN :
          apply_chan = <<BatchOf(0, a, t1, m1), BatchOf(a, b, t2, m2)>>
    /\ pc = "batch"
    /\ \E max \in 0..MaxBatchSize :
          budget = [reqs |-> 0, reads |-> 0, faults |-> 0, failed |-> "none",
                    terms |-> MaxTerm, max_apply_batch_size |-> max]
    /\ actor = ActorNew(<<>>)

BatchFrame ==
    UNCHANGED <<OtherParts, groups, group, raft, replica_cache, active, budget, gwr,
                multi_groups_apply, events, delivered, propose_chan, expected, replies,
                read_replies>>

\* self.try_batch(&mut that, max) on the two batches at the front
call_try_batch ==
    /\ pc = "batch"
    /\ try_batch_asserts(apply_chan[1], apply_chan[2])
    /\ LET res == ApplyData_try_batch(apply_chan[1], apply_chan[2],
                                      budget.max_apply_batch_size)
       IN /\ apply_chan' = <<res.this, res.that>>
          /\ pc' = IF res.merged THEN "merged" ELSE "kept"
    /\ BatchFrame

\* an assertion of try_batch fails: the terms of the two batches go down
try_batch_panics ==
    /\ pc = "batch"
    /\ ~try_batch_asserts(apply_chan[1], apply_chan[2])
    /\ pc' = "panicked"
    /\ UNCHANGED apply_chan
    /\ BatchFrame

NextBatch == call_try_batch \/ try_batch_panics

SpecBatch == InitBatch /\ [][NextBatch]_vars

\* ---------------------------------------------------------------------
\* The MultiRaftActor of src/multiraft/multiraft.rs: group management and ticks
\* ---------------------------------------------------------------------
NodeVars == <<groups, group, raft, replica_cache, pc, active, budget, gwr, multi_groups_apply,
              apply_chan, delivered, propose_chan, expected, replies, read_replies, events,
              facade, ticker, transport>>

ManageTypes == {"MsgInitialGroup", "MsgBootstrapGroup", "MsgRemoveGoup"}

\* MultiRaftActor::add_node
add_node(nodes, node_id, group_id) ==
    insert(nodes, node_id, (IF node_id \in DOMAIN nodes THEN nodes[node_id] ELSE {}) \cup {group_id})

RECURSIVE add_nodes(_, _, _)
add_nodes(nodes, node_ids, group_id) ==
    IF node_ids = {} THEN nodes
    ELSE LET n == CHOOSE x \in node_ids : TRUE
         IN add_nodes(add_node(nodes, n, group_id), node_ids \ {n}, group_id)

\* an initial_group that does not look for the group in the group map
initial_group_unchecked(a, msg) ==
    IF msg.group_id = 0 THEN [actor |-> a, res |-> "BadParameter"]
    ELSE IF msg.replica_id = 0 THEN [actor |-> a, res |-> "BadParameter"]
    ELSE [actor |-> [a EXCEPT !.storages = IF msg.group_id \in DOMAIN @ THEN @
                                           ELSE insert(@, msg.group_id, msg.initial_voters),
                              !.nodes = add_node(@, NodeId, msg.group_id),
                              !.groups = insert(@, msg.group_id, msg.replica_id)],
          res |-> "Ok"]

\* MultiRaftActor::initial_group
initial_group(a, msg) ==
    IF msg.group_id = 0 THEN [actor |-> a, res |-> "BadParameter"]
    ELSE IF msg.replica_id = 0 THEN [actor |-> a, res |-> "BadParameter"]
    ELSE IF msg.group_id \in DOMAIN a.groups THEN [actor |-> a, res |-> "RaftGroupAlreayExists"]
    ELSE [actor |-> [a EXCEPT !.storages = IF msg.group_id \in DOMAIN @ THEN @
                                           ELSE insert(@, msg.group_id, msg.initial_voters),
                              !.nodes = add_node(@, NodeId, msg.group_id),
                              !.groups = insert(@, msg.group_id, msg.replica_id)],
          res |-> "Ok"]

\* MultiRaftActor::bootstrap_group_replica
bootstrap_group_replica(a, group_id, replica_id) ==
    IF group_id = 0 THEN [actor |-> a, res |-> "BadParameter"]
    ELSE IF replica_id = 0 THEN [actor |-> a, res |-> "BadParameter"]
    ELSE IF group_id \in DOMAIN a.groups THEN [actor |-> a, res |-> "RaftGroupAlreayExists"]
    ELSE IF group_id \notin DOMAIN a.storages THEN [actor |-> a, res |-> "Store::Unavailable"]
    ELSE [actor |-> [a EXCEPT !.nodes = add_nodes(@, {NodeOf(v) : v \in a.storages[group_id]}, group_id),
                              !.groups = insert(@, group_id, replica_id)],
          res |-> "Ok"]

\* a management message is sent to the actor (manager_group_tx, capacity 1)
send_manager_group ==
    /\ ~actor.panicked
    /\ Len(actor.requests) < MaxManage
    /\ Len(actor.manager_group_rx) < ChanCap
    /\ \E type \in ManageTypes, g \in 0..BadGroupId, r \in 0..LocalReplica,
          voters \in {{LocalReplica}, {LocalReplica, PeerReplica}} :
       LET msg == [type |-> type, group_id |-> g, replica_id |-> r,
                   initial_voters |-> IF type = "MsgInitialGroup" THEN voters ELSE {},
                   id |-> Len(actor.requests) + 1]
       IN actor' = [actor EXCEPT !.manager_group_rx = Append(@, msg),
                                 !.requests = Append(@, msg),
                                 !.results = Append(@, <<>>)]
    /\ UNCHANGED NodeVars

\* MultiRaftActor::handle_manager_group_message: the arm of MsgRemoveGoup is
\* todo!(), which panics before the result is sent
handle_manager_group_message ==
    /\ ~actor.panicked
    /\ actor.manager_group_rx # <<>>
    /\ LET msg == Head(actor.manager_group_rx)
           a == [actor EXCEPT !.manager_group_rx = Tail(@)]
           out == IF msg.type = "MsgInitialGroup" THEN initial_group(a, msg)
                  ELSE bootstrap_group_replica(a, msg.group_id, msg.replica_id)
       IN actor' = IF msg.type = "MsgRemoveGoup"
                   THEN [a EXCEPT !.panicked = TRUE]
                   ELSE [out.actor EXCEPT !.results[msg.id] = Append(@, out.res)]
    /\ UNCHANGED NodeVars

NO_GORUP == 0

\* a message between nodes: RaftMessage { group_id, from_replica, to_replica, msg }
RaftMessage(group_id, type, from_node, to_node) ==
    [group_id |-> group_id, type |-> type, from_node |-> from_node, to_node |-> to_node]

\* the loop of coalesced_heratbeat over the rest of the node map
RECURSIVE heartbeats(_)
heartbeats(node_ids) ==
    IF node_ids = {} THEN <<>>
    ELSE LET node_id == CHOOSE x \in node_ids : \A y \in node_ids : x <= y
         IN IF node_id = NodeId THEN heartbeats(node_ids \ {node_id})
            ELSE <<RaftMessage(NO_GORUP, "MsgHeartbeat", NodeId, node_id)>>
                 \o heartbeats(node_ids \ {node_id})

\* a coalesced heartbeat that does not skip the local node
coalesced_heratbeat_to_self_too(a) ==
    [a EXCEPT !.outbox = <<RaftMessage(NO_GORUP, "MsgHeartbeat", NodeId, NodeId)>>
                             \o heartbeats(DOMAIN a.nodes),
              !.stepped = {}]

\* MultiRaftActor::coalesced_heratbeat: one heartbeat to every other node
coalesced_heratbeat(a) == [a EXCEPT !.outbox = heartbeats(DOMAIN a.nodes), !.stepped = {}]

\* the results of Transport::send for the messages handed to it: the
\* messages whose send returns Err, any of them while the environment
\* lets the transport fail
SendErrors(msgs) ==
    IF budget.faults > 0 THEN SUBSET {msgs[k] : k \in DOMAIN msgs} ELSE {{}}

\* coalesced_heratbeat's `if let Err(_error) = self.transport.send(msg) {}`:
\* the error of a send is dropped
send_heartbeat(a, failed) == [a EXCEPT !.send_failed = failed]

\* MultiRaftActor::start, the ticker's arm
actor_tick ==
    /\ ~actor.panicked
    /\ LET a == IF actor.ticks + 1 >= heartbeat_tick
                THEN coalesced_heratbeat([actor EXCEPT !.ticks = 0])
                ELSE [actor EXCEPT !.ticks = @ + 1, !.outbox = <<>>, !.stepped = {}]
       IN \E failed \in SendErrors(a.outbox) : actor' = send_heartbeat(a, failed)
    /\ UNCHANGED NodeVars

\* the leader the actor records for a group: initial_group and
\* bootstrap_group_replica set None, and nothing sets it afterwards
leader_of(a, group_id) == None

\* the groups a heartbeat or its response from from_node is stepped into:
\* those of the node's group map the actor holds, whose recorded leader is
\* on from_node, when from_node is the local node
fanout_groups(a, from_node) ==
    {group_id \in a.nodes[from_node] :
        /\ group_id \in DOMAIN a.groups
        /\ leader_of(a, group_id) # None
        /\ ~(leader_of(a, group_id)[1].node_id # from_node \/ from_node # NodeId)}

\* a fan-out that answers only the nodes of the fan-out map
fanout_heartbeat_known_only(a, raft_msg) ==
    IF raft_msg.from_node = 0 \/ raft_msg.to_node = 0 THEN a
    ELSE IF raft_msg.from_node \notin DOMAIN a.nodes THEN a
    ELSE [a EXCEPT !.stepped = fanout_groups(a, raft_msg.from_node),
                   !.outbox = <<RaftMessage(NO_GORUP, "MsgHeartbeatResponse", NodeId,
                                            raft_msg.from_node)>>]

\* MultiRaftActor::fanout_heartbeat
fanout_heartbeat(a, raft_msg) ==
    LET response_msg == RaftMessage(NO_GORUP, "MsgHeartbeatResponse", NodeId, raft_msg.from_node)
    IN IF raft_msg.from_node = 0 \/ raft_msg.to_node = 0 THEN a
       ELSE IF raft_msg.from_node \notin DOMAIN a.nodes
       THEN [a EXCEPT !.outbox = <<response_msg>>]
       ELSE [a EXCEPT !.stepped = fanout_groups(a, raft_msg.from_node),
                      !.outbox = <<response_msg>>]

\* fanout_heartbeat's send_response closure,
\* `self.transport.send(response_msg).unwrap()`: the error of the send panics
send_response(a, failed) ==
    IF failed # {} THEN [a EXCEPT !.send_failed = failed, !.panicked = TRUE]
    ELSE [a EXCEPT !.send_failed = {}]

\* a fan-out of the response that answers the response
fanout_heartbeat_response_answers(a, raft_msg) ==
    IF raft_msg.from_node = 0 \/ raft_msg.to_node = 0 THEN a
    ELSE IF raft_msg.from_node \notin DOMAIN a.nodes THEN a
    ELSE [a EXCEPT !.stepped = fanout_groups(a, raft_msg.from_node),
                   !.outbox = <<RaftMessage(NO_GORUP, "MsgHeartbeatResponse", NodeId,
                                            raft_msg.from_node)>>]

\* MultiRaftActor::fanout_heartbeat_response
fanout_heartbeat_response(a, raft_msg) ==
    IF raft_msg.from_node = 0 \/ raft_msg.to_node = 0 THEN a
    ELSE IF raft_msg.from_node \notin DOMAIN a.nodes THEN a
    ELSE [a EXCEPT !.stepped = fanout_groups(a, raft_msg.from_node)]

MaxMsgs == 2

UnknownNode == NodeId + 2

\* a peer's transport delivers a message to the actor (raft_message_tx,
\* capacity 1): a coalesced heartbeat or response of group 0, or a message
\* of a group addressed to the local replica
send_raft_message ==
    /\ ~actor.panicked
    /\ actor.received < MaxMsgs
    /\ Len(actor.raft_message_rx) < ChanCap
    /\ \E type \in {"MsgHeartbeat", "MsgHeartbeatResponse", "MsgAppend"},
          from_node \in {0, NodeOf(PeerReplica), UnknownNode} :
       LET group_id == IF type = "MsgAppend" THEN GroupId ELSE NO_GORUP
       IN actor' = [actor EXCEPT !.raft_message_rx =
                                    Append(@, RaftMessage(group_id, type, from_node, NodeId)),
                                 !.received = @ + 1]
    /\ UNCHANGED NodeVars

\* MultiRaftActor::step_raft_message for a message addressed to to_replica:
\* the group is bootstrapped on demand and the message is stepped into it;
\* the assertion on the group id and the unwrap() of the bootstrap panic
step_raft_message(a, raft_msg, to_replica) ==
    IF raft_msg.group_id = NO_GORUP THEN [a EXCEPT !.panicked = TRUE]
    ELSE IF raft_msg.group_id \in DOMAIN a.groups
    THEN [a EXCEPT !.stepped = {raft_msg.group_id}]
    ELSE LET b == bootstrap_group_replica(a, raft_msg.group_id, to_replica)
         IN IF b.res # "Ok" THEN [a EXCEPT !.panicked = TRUE]
            ELSE [b.actor EXCEPT !.stepped = {raft_msg.group_id}]

\* MultiRaftActor::handle_raft_message
handle_raft_message ==
    /\ ~actor.panicked
    /\ actor.raft_message_rx # <<>>
    /\ LET msg == Head(actor.raft_message_rx)
           a == [actor EXCEPT !.raft_message_rx = Tail(@), !.outbox = <<>>,
                              !.send_failed = {}, !.stepped = {}, !.handled = msg.type]
       IN IF msg.type = "MsgHeartbeat"
          THEN \E failed \in SendErrors(fanout_heartbeat(a, msg).outbox) :
                  actor' = send_response(fanout_heartbeat(a, msg), failed)
          ELSE actor' = IF msg.type = "MsgHeartbeatResponse"
                        THEN fanout_heartbeat_response(a, msg)
                        ELSE a
    /\ UNCHANGED NodeVars

NextActor ==
    \/ send_manager_group
    \/ handle_manager_group_message
    \/ actor_tick
    \/ send_raft_message
    \/ handle_raft_message

\* the storage the actor is started over holds nothing, or the group of an earlier run
InitActor ==
    /\ Fresh
    /\ budget = [reqs |-> 0, reads |-> 0, faults |-> 0, failed |-> "none", terms |-> MaxTerm]
    /\ actor \in {ActorNew(<<>>),
                  ActorNew(insert(<<>>, BadGroupId, {LocalReplica, PeerReplica})),
                  ActorNew([g \in {GroupId, BadGroupId} |-> {LocalReplica, PeerReplica}])}

SpecActor == InitActor /\ [][NextActor]_vars

\* the actor over a transport whose sends may return an error
InitTransport ==
    /\ Fresh
    /\ budget = [reqs |-> 0, reads |-> 0, faults |-> MaxFaults, failed |-> "none", terms |-> MaxTerm]
    /\ actor \in {ActorNew(<<>>),
                  ActorNew([g \in {GroupId, BadGroupId} |-> {LocalReplica, PeerReplica}])}

SpecTransport == InitTransport /\ [][NextActor]_vars

MaxWrites == 2

\* MultiRaft::write: the request and the sending end of its reply channel
\* go to the actor (write_propose_tx, capacity 1); the caller awaits the
\* receiving end, and drops it when its future is dropped
send_write_propose ==
    /\ ~actor.panicked
    /\ Len(actor.writes) < MaxWrites
    /\ Len(actor.write_propose_rx) < ChanCap
    /\ \E group_id \in DOMAIN actor.groups, data_empty \in BOOLEAN, term \in 0..1,
          rx_dropped \in BOOLEAN :
       LET request == [id |-> Len(actor.writes) + 1, group_id |-> group_id,
                       data_empty |-> data_empty, term |-> term, rx_dropped |-> rx_dropped]
       IN actor' = [actor EXCEPT !.write_propose_rx = Append(@, request),
                                 !.writes = Append(@, "pending")]
    /\ UNCHANGED NodeVars

\* RaftGroup::write_pre_propose of raft_propose.rs
write_pre_propose(request, leader, raft_term) ==
    IF request.data_empty THEN "BadParameter"
    ELSE IF ~leader THEN "Raft::NotLeader"
    ELSE IF request.term # 0 /\ raft_term > request.term THEN "Proposal::Stale"
    ELSE "Ok"

\* the outcome of tx.send(..).unwrap() on the reply channel of a request
send_unwrap(a, request, res) ==
    IF request.rx_dropped THEN [a EXCEPT !.writes[request.id] = "dropped", !.panicked = TRUE]
    ELSE [a EXCEPT !.writes[request.id] = res]

\* raft_log.last_index() of a group of the actor
actor_last_index(a, group_id) ==
    IF group_id \in DOMAIN a.last_index THEN a.last_index[group_id] ELSE 0

\* RawNode::propose on a group of the actor: the library appends the entry,
\* returns an error, or drops the proposal
actor_propose(a, group_id, outcome) ==
    IF outcome = "append"
    THEN [a EXCEPT !.last_index = insert(@, group_id, actor_last_index(a, group_id) + 1)]
    ELSE a

\* RaftGroup::write_propose of raft_propose.rs
write_propose(a, request, leader, raft_term, outcome) ==
    LET err == write_pre_propose(request, leader, raft_term)
        term == raft_term
        expected_next_index == actor_last_index(a, request.group_id) + 1
        a2 == actor_propose(a, request.group_id, outcome)
        index == actor_last_index(a2, request.group_id) + 1
    IN IF err # "Ok" THEN send_unwrap(a, request, err)
       ELSE IF outcome = "error" THEN send_unwrap(a2, request, "Proposal::Other")
       ELSE IF expected_next_index # index
       THEN send_unwrap(a2, request, "Proposal::Unexpected")
       ELSE [a2 EXCEPT !.proposals = Append(@, Proposal(index, term, FALSE, request.id))]

\* MultiRaftActor::handle_write_request: the result it returns for a
\* request to a group, and the actor after the call
handle_write_request(a, request, raft_term, outcome) ==
    LET term == raft_term
        expected_next_index == actor_last_index(a, request.group_id) + 1
        a2 == actor_propose(a, request.group_id, outcome)
        index == actor_last_index(a2, request.group_id) + 1
    IN IF request.term # 0 /\ term > request.term
       THEN [actor |-> a, err |-> "Proposal::Stale", proposal |-> <<>>]
       ELSE IF outcome = "error"
       THEN [actor |-> a2, err |-> "Proposal::Other", proposal |-> <<>>]
       ELSE IF expected_next_index # index
       THEN [actor |-> a2, err |-> "Proposal::Unexpected", proposal |-> <<>>]
       ELSE [actor |-> a2, err |-> "Ok",
             proposal |-> <<Proposal(index, term, FALSE, request.id)>>]

\* the actor takes a write from write_propose_rx and hands it to its group;
\* the role and term of the replica are those the library has reached
recv_write_propose ==
    /\ ~actor.panicked
    /\ actor.write_propose_rx # <<>>
    /\ \E leader \in BOOLEAN, raft_term \in 1..MaxTerm, outcome \in {"append", "error", "drop"} :
          actor' = write_propose([actor EXCEPT !.write_propose_rx = Tail(@)],
                                 Head(actor.write_propose_rx), leader, raft_term, outcome)
    /\ UNCHANGED NodeVars

NextWrite ==
    \/ send_manager_group
    \/ handle_manager_group_message
    \/ send_write_propose
    \/ recv_write_propose

SpecWrite == InitActor /\ [][NextWrite]_vars

\* ---------------------------------------------------------------------
\* The facade over its channels to the actor (src/multiraft.rs)
\* ---------------------------------------------------------------------
MaxCalls == 2

FacadeVars == <<groups, group, raft, replica_cache, pc, active, budget, gwr, multi_groups_apply,
                apply_chan, delivered, propose_chan, expected, replies, read_replies, events,
                actor, ticker, transport>>

\* mpsc::Sender::try_send: a closed channel is reported before a full one
TrySend(tx) ==
    IF tx.closed THEN "Closed"
    ELSE IF tx.len >= ChanCap THEN "Full"
    ELSE "Ok"

\* the sender after a try_send
Sent(tx) == IF TrySend(tx) = "Ok" THEN [tx EXCEPT !.len = @ + 1] ELSE tx

\* what the channel looks like to a call
Seen(tx) == IF tx.closed THEN "closed" ELSE IF tx.len >= ChanCap THEN "full" ELSE "room"

Call(op, saw, result) == [op |-> op, saw |-> saw, result |-> result]

\* MultiRaft::write_non_block and MultiRaft::membership_non_block over the propose channel
propose_result(f, states, group_id) ==
    LET err == pre_propose_check(states, group_id)
        sent == TrySend(f.propose_tx)
    IN IF err # <<>> THEN [facade |-> f, saw |-> "unused", result |-> err[1].kind]
       ELSE [facade |-> [f EXCEPT !.propose_tx = Sent(@)],
             saw |-> Seen(f.propose_tx),
             result |-> IF sent = "Full" THEN "Channel::Full"
                        ELSE IF sent = "Closed" THEN "Channel::ReceiverClosed"
                        ELSE "Ok(rx)"]

\* MultiRaft::read_index_non_block
read_index_result(f) ==
    LET sent == TrySend(f.propose_tx)
    IN [facade |-> [f EXCEPT !.propose_tx = Sent(@)],
        saw |-> Seen(f.propose_tx),
        result |-> IF sent = "Full" THEN "Channel::Full"
                   ELSE IF sent = "Closed" THEN "Channel::ReceiverClosed"
                   ELSE "Ok(rx)"]

\* MultiRaft::campaign_group_non_block: any error of try_send panics
campaign_result(f) ==
    LET sent == TrySend(f.campaign_tx)
    IN IF sent # "Ok"
       THEN [facade |-> [f EXCEPT !.panicked = TRUE], saw |-> Seen(f.campaign_tx), result |-> "panic"]
       ELSE [facade |-> [f EXCEPT !.campaign_tx = Sent(@)], saw |-> "room", result |-> "rx"]

\* MultiRaft::management_request, for create_group and remove_group
management_request(f) ==
    LET sent == TrySend(f.manage_tx)
    IN [facade |-> [f EXCEPT !.manage_tx = Sent(@)],
        saw |-> Seen(f.manage_tx),
        result |-> IF sent = "Full" THEN "Channel::Full"
                   ELSE IF sent = "Closed" THEN "Channel::SenderClosed"
                   ELSE "Ok(())"]

FacadeOps == {"write", "membership", "read_index", "campaign", "create_group", "remove_group"}

\* a caller invokes an operation of the facade
facade_call ==
    /\ ~facade.panicked
    /\ Len(facade.calls) < MaxCalls
    /\ \E op \in FacadeOps, g \in {GroupId, BadGroupId} :
       LET out == IF op \in {"write", "membership"} THEN propose_result(facade, shared_states, g)
                  ELSE IF op = "read_index" THEN read_index_result(facade)
                  ELSE IF op = "campaign" THEN campaign_result(facade)
                  ELSE management_request(facade)
       IN facade' = [out.facade EXCEPT !.calls = Append(@, Call(op, out.saw, out.result))]
    /\ UNCHANGED FacadeVars

FacadeChannels == {"propose_tx", "campaign_tx", "manage_tx"}

\* the actor takes a message from one of its channels
actor_recv ==
    /\ \E c \in FacadeChannels :
       /\ ~facade[c].closed
       /\ facade[c].len > 0
       /\ facade' = [facade EXCEPT ![c].len = @ - 1]
    /\ UNCHANGED FacadeVars

\* the actor's task ends: its receivers are dropped
actor_exit ==
    /\ ~facade.propose_tx.closed
    /\ facade' = [facade EXCEPT !.propose_tx.closed = TRUE, !.campaign_tx.closed = TRUE,
                                !.manage_tx.closed = TRUE]
    /\ UNCHANGED FacadeVars

NextFacade ==
    \/ facade_call
    \/ actor_recv
    \/ actor_exit

\* a node whose replica of the group leads it, at rest after its election
ElectedLeader ==
    /\ groups = {GroupId}
    /\ group = [NoGroup EXCEPT !.replica_id = LocalReplica,
                               !.leader = ReplicaDesc(NodeOf(LocalReplica), LocalReplica)]
    /\ raft = [RawNodeNew EXCEPT !.state = "Leader", !.term = 1, !.leader_id = LocalReplica,
                                 !.log = <<Noop(1)>>, !.persisted = 1,
                                 !.prev_ss = [leader_id |-> LocalReplica, raft_state |-> "Leader"]]
    /\ pc = "idle"
    /\ gwr = None
    /\ multi_groups_apply = <<>>
    /\ propose_chan = <<>>

\* the facade of a node without a group, or of a node that leads its group
InitFacade ==
    /\ \/ Fresh
       \/ /\ ElectedLeader
          /\ replica_cache = [cached |-> {LocalReplica}, stored |-> {LocalReplica}]
          /\ active = FALSE
          /\ apply_chan = <<>> /\ delivered = <<>> /\ expected = <<>> /\ replies = <<>>
          /\ read_replies = <<>>
          /\ events = <<LeaderElectionEvent(GroupId, LocalReplica, LocalReplica)>>
          /\ facade = FacadeNew
          /\ ticker = ManualTickNew /\ transport = <<>>
    /\ budget = [reqs |-> 0, reads |-> 0, faults |-> 0, failed |-> "none", terms |-> MaxTerm]
    /\ actor = ActorNew(<<>>)

SpecFacade == InitFacade /\ [][NextFacade]_vars

\* ---------------------------------------------------------------------
\* The manual ticker (src/tick.rs)
\* ---------------------------------------------------------------------
MaxTicks == 3

Clones == 1..2

TickVars == <<groups, group, raft, replica_cache, pc, active, budget, gwr, multi_groups_apply,
              apply_chan, delivered, propose_chan, expected, replies, read_replies, events,
              actor, facade, transport>>

\* self.tx.send(tx): the sending end of a new oneshot channel joins the queue
send_tick(t, kind, clone) ==
    [t EXCEPT !.requests = Append(@, [kind |-> kind, clone |-> clone]),
              !.chan = Append(@, Len(t.requests) + 1)]

\* ManualTick::tick, up to its await of the response
tick_request ==
    /\ Len(ticker.requests) < MaxTicks
    /\ \E clone \in Clones : ticker' = send_tick(ticker, "tick", clone)
    /\ UNCHANGED TickVars

\* ManualTick::non_blocking_tick: the spawned task sends the request
non_blocking_tick ==
    /\ Len(ticker.requests) < MaxTicks
    /\ \E clone \in Clones : ticker' = send_tick(ticker, "non_blocking_tick", clone)
    /\ UNCHANGED TickVars

\* the requests of tick() whose caller still awaits the response
Awaiting(t) ==
    {id \in DOMAIN t.requests : t.requests[id].kind = "tick"} \ (t.returned \cup t.dropped)

\* the future of a tick() is dropped while it awaits the response
tick_dropped ==
    /\ \E id \in Awaiting(ticker) : ticker' = [ticker EXCEPT !.dropped = @ \cup {id}]
    /\ UNCHANGED TickVars

\* ManualTick::tick returns: rx.await has the response
tick_return ==
    /\ \E id \in Awaiting(ticker) \cap ticker.answered :
          ticker' = [ticker EXCEPT !.returned = @ \cup {id}]
    /\ UNCHANGED TickVars

\* ManualTick::recv, to the lock of the shared receiver
recv_lock ==
    /\ ticker.lock = 0
    /\ \E clone \in Clones : ticker' = [ticker EXCEPT !.lock = clone]
    /\ UNCHANGED TickVars

\* a recv that takes the request sent last
recv_newest_first(t) ==
    LET res_tx == t.chan[Len(t.chan)]
    IN [t EXCEPT !.chan = SubSeq(@, 1, Len(@) - 1),
                 !.lock = 0,
                 !.recvs = Append(@, res_tx),
                 !.answered = IF res_tx \in t.dropped THEN @ ELSE @ \cup {res_tx}]

\* rx.recv().await.map(|res_tx| res_tx.send(())): the oldest request leaves
\* the queue and is answered, unless its receiver is gone; the guard of the
\* lock is released
recv(t) ==
    LET res_tx == Head(t.chan)
    IN [t EXCEPT !.chan = Tail(@),
                 !.lock = 0,
                 !.recvs = Append(@, res_tx),
                 !.answered = IF res_tx \in t.dropped THEN @ ELSE @ \cup {res_tx}]

\* ManualTick::recv completes
recv_complete ==
    /\ ticker.lock # 0
    /\ ticker.chan # <<>>
    /\ ticker' = recv(ticker)
    /\ UNCHANGED TickVars

\* the future of a recv is dropped while it waits for a request
recv_dropped ==
    /\ ticker.lock # 0
    /\ ticker' = [ticker EXCEPT !.lock = 0]
    /\ UNCHANGED TickVars

NextTick ==
    \/ tick_request
    \/ non_blocking_tick
    \/ tick_dropped
    \/ tick_return
    \/ recv_lock
    \/ recv_complete
    \/ recv_dropped

InitTick == Fresh /\ budget = [reqs |-> 0, reads |-> 0, faults |-> 0, failed |-> "none", terms |-> MaxTerm] /\ actor = ActorNew(<<>>)

SpecTick == InitTick /\ [][NextTick]_vars

\* ---------------------------------------------------------------------
\* Sanity of the library model
\* ---------------------------------------------------------------------
RaftOK ==
    /\ raft.since <= Min(raft.committed, raft.persisted)
    /\ raft.committed <= Len(raft.log)
    /\ raft.persisted <= Len(raft.log)
    /\ \A i \in 1..Len(raft.log) : raft.log[i].term <= raft.term /\ raft.log[i].term >= 1
    /\ \A i \in 2..Len(raft.log) : raft.log[i - 1].term <= raft.log[i].term

\* ---------------------------------------------------------------------
\* Claims
\* ---------------------------------------------------------------------
Last(q) == q[Len(q)]

Requests == 1..Len(replies)

Occurs(q, r) == Cardinality({k \in DOMAIN q : q[k].req = r})

InChannel(r) == \E k \in DOMAIN propose_chan : propose_chan[k].kind # "read_index" /\ propose_chan[k].req = r

InBatches(r) ==
    Cardinality({g \in DOMAIN multi_groups_apply : Occurs(multi_groups_apply[g].proposals, r) > 0})
    + Cardinality({k \in DOMAIN apply_chan : Occurs(apply_chan[k].proposals, r) > 0})

\* the places a request waits in, counted
Pending(r) == Occurs(group.proposals, r) + InBatches(r)

\* C1: the entries handed to the state machine come in strictly increasing
\* index order, none skipped and none delivered twice: the k-th entry
\* delivered is the entry of index k.
C1_DeliveredInOrder ==
    \A k \in 1..Len(delivered) : delivered[k].index = k

Leaving == {k \in DOMAIN group.proposals : Occurs(group'.proposals, group.proposals[k].req) = 0}

AnsweredWith(r, kinds) ==
    /\ Len(replies'[r]) = Len(replies[r]) + 1
    /\ Last(replies'[r]).kind \in kinds
    /\ \A g \in DOMAIN multi_groups_apply' : Occurs(multi_groups_apply'[g].proposals, r) = 0

\* C3 as stated: a queued record whose term is lower than the group's
\* current term never succeeds; when it leaves the queue it is answered
\* with a stale or a not-leader error.
C3_StaleAnsweredStaleOrNotLeader ==
    [][\A k \in Leaving :
          group.proposals[k].term < raft.term
          => AnsweredWith(group.proposals[k].req, {"Stale", "Write::NotLeader"})]_vars

\* C3 amended: a queued record whose term is lower than the group's current
\* term never succeeds and never enters an apply batch; when it leaves the
\* queue it is answered with a stale error, or with the deleted error of
\* the group's removal.
C3_StaleNeverSucceeds ==
    [][\A k \in Leaving :
          group.proposals[k].term < raft.term
          => AnsweredWith(group.proposals[k].req, {"Stale", "RaftGroup::Deleted"})]_vars

\* a record of term 1 was answered stale by the scan of an entry of term 2,
\* with the entry at its index rewritten by the leader of term 2
C3_Witness ==
    \E r \in Requests :
        /\ replies[r] = <<Reply("Stale", "queue", <<1, 2>>)>>
        /\ Len(raft.log) >= 2
        /\ raft.log[2].term = 2

\* C4: a write of expected term T # 0 that is answered with success was
\* applied in an entry of a term not lower than T.
C4_SuccessTermAtLeastExpected ==
    \A r \in Requests : \A k \in DOMAIN replies[r] :
        replies[r][k].kind = "Ok" /\ expected[r] # 0 => replies[r][k].args[2] >= expected[r]

\* C5: a read-index request is answered with success only when the library
\* produced a read state for it and the applied index of the replica has
\* reached the read index.
C5_ReadAfterApplied ==
    \A u \in DOMAIN read_replies : \A k \in DOMAIN read_replies[u] :
        read_replies[u][k].kind = "Ok" => read_replies[u][k].args[2] >= read_replies[u][k].args[1]

\* the step takes a write from the propose channel to a group that is not leader
WriteToNonLeader ==
    /\ pc = "idle"
    /\ propose_chan # <<>>
    /\ Head(propose_chan).kind = "write"
    /\ propose_chan' = Tail(propose_chan)
    /\ GroupLive
    /\ ~is_leader(raft)

\* C6: a write that reaches a replica that is not the leader is answered with
\* NotLeader carrying the node id, the group id and the local replica id,
\* whatever its payload and expected term; nothing is appended to the log
\* and no record is queued.
C6_NonLeaderAnswersNotLeader ==
    [][WriteToNonLeader =>
          /\ replies'[Head(propose_chan).req] =
                <<Reply("Write::NotLeader", "group", <<NodeId, GroupId, LocalReplica>>)>>
          /\ raft'.log = raft.log
          /\ group'.proposals = group.proposals]_vars

\* C7: a write to a group id no group has returns RaftGroup NotExist, and
\* nothing is put on the propose channel.
C7_NoGroupIsNotExist ==
    [][~GroupLive /\ Len(replies') = Len(replies) + 1 =>
          /\ Last(replies') # <<>>
          /\ Last(replies')[1].kind = "RaftGroup::NotExist"
          /\ propose_chan' = propose_chan]_vars

\* C8: the removal of a group answers every write and membership proposal
\* pending in its queue with Deleted carrying the group id and the replica
\* id, each once, and leaves the queue empty; no other request gets a reply.
C8_RemovalAnswersDeleted ==
    [][GroupLive /\ group'.status = "Delete" =>
          /\ group'.proposals = <<>>
          /\ \A r \in Requests :
                replies'[r] = replies[r] \o
                    [k \in 1..Occurs(group.proposals, r) |->
                        Reply("RaftGroup::Deleted", "remove", <<GroupId, LocalReplica>>)]]_vars

\* a removed group whose queue held a write and a membership change
C8_Witness ==
    /\ group.status = "Delete"
    /\ Len(replies) >= 2
    /\ \A r \in 1..2 : replies[r] # <<>> /\ replies[r][1].kind = "RaftGroup::Deleted"

\* the removal requests the actor has taken from its channel
HandledRemovals ==
    {i \in DOMAIN actor.requests :
        /\ actor.requests[i].type = "MsgRemoveGoup"
        /\ \A k \in DOMAIN actor.manager_group_rx : actor.manager_group_rx[k].id # i}

\* C9: once the actor has handled a removal request, the request has its
\* answer and the actor is still running; it goes on without work for the
\* removed group.
C9_RemovalAnsweredActorRuns ==
    \A i \in HandledRemovals :
        /\ Len(actor.results[i]) = 1
        /\ ~actor.panicked
        /\ actor.requests[i].group_id \notin DOMAIN actor.groups

\* the group is at rest in its first term with a leader
FirstElectionSettled ==
    /\ GroupLive
    /\ pc = "idle"
    /\ ~has_ready(raft)
    /\ raft.term = 1
    /\ raft.leader_id # NO_LEADER

\* C10: when a group without a leader has elected one and the node is at
\* rest, the node has emitted exactly one LeaderElection event, and it names
\* the elected replica.
C10_OneLeaderElectionEvent ==
    FirstElectionSettled =>
        events = <<LeaderElectionEvent(GroupId, raft.leader_id, raft.leader_id)>>

\* the record of request r is queued with a term the group has left behind,
\* and the replica follows the leader of the new term
StalePending(r) ==
    /\ GroupLive
    /\ raft.leader_id = PeerReplica
    /\ \E k \in DOMAIN group.proposals :
          group.proposals[k].req = r /\ group.proposals[k].term < raft.term

AnsweredStale(r) ==
    /\ r \in Requests
    /\ replies[r] # <<>>
    /\ replies[r][1].kind \in {"Stale", "Write::NotLeader"}

\* C11: a write pending on a replica that has lost leadership to a higher
\* term is eventually answered with Stale or NotLeader, also when no entry
\* is committed after the leader change.
C11_StalePendingAnswered ==
    \A r \in 1..MaxReq : StalePending(r) ~> AnsweredStale(r)

\* the entry of index i has reached the state machine of the replica
AppliedAt(i) == \E k \in DOMAIN delivered : delivered[k].index = i

\* C12: an entry that is committed in the log of a connected replica (the
\* write a leader has accepted, at the index the leader gave it) is
\* eventually applied on that replica.
C12_CommittedEventuallyApplied ==
    \A i \in 1..MaxIndex : (GroupLive /\ raft.committed >= i) ~> AppliedAt(i)

\* the calls that got as far as the channel to the actor
ChannelCalls == {k \in DOMAIN facade.calls : facade.calls[k].saw # "unused"}

\* C13: a facade operation whose channel to the actor is full returns Full,
\* one whose receiver is closed returns ReceiverClosed, and no operation
\* panics.
C13_FullOrReceiverClosed ==
    /\ ~facade.panicked
    /\ \A k \in ChannelCalls :
          /\ facade.calls[k].saw = "full" => facade.calls[k].result = "Channel::Full"
          /\ facade.calls[k].saw = "closed" => facade.calls[k].result = "Channel::ReceiverClosed"

\* the step is the actor taking the message at the head of raft_message_rx
HandlesRaftMessage(type) ==
    /\ actor.raft_message_rx # <<>>
    /\ Head(actor.raft_message_rx).type = type
    /\ actor'.raft_message_rx = Tail(actor.raft_message_rx)

\* the groups the actor holds a replica of that have a replica on node_id
SharedGroups(a, node_id) ==
    IF node_id \in DOMAIN a.nodes THEN a.nodes[node_id] \cap DOMAIN a.groups ELSE {}

\* C14: a coalesced heartbeat that arrives from a peer node is stepped into
\* the Raft instance of every group the receiver shares with that node, so
\* that each follower gets its heartbeat once per heartbeat interval of the
\* leader's node.
C14_HeartbeatSteppedIntoSharedGroups ==
    [][HandlesRaftMessage("MsgHeartbeat") =>
          SharedGroups(actor, Head(actor.raft_message_rx).from_node) \subseteq actor'.stepped]_vars

\* the nodes of the fan-out map other than the local node
Peers(a) == DOMAIN a.nodes \ {NodeId}

\* C15: the tick that brings the counter to heartbeat_tick resets the
\* counter and sends one MsgHeartbeat with group_id 0 from the local node
\* to each peer node, none to the local node and nothing else, however
\* many groups the peer shares with the local node.
C15_OneHeartbeatPerPeer ==
    [][(actor'.ticks # actor.ticks /\ actor.ticks + 1 >= heartbeat_tick) =>
          /\ actor'.ticks = 0
          /\ Len(actor'.outbox) = Cardinality(Peers(actor))
          /\ \A k \in DOMAIN actor'.outbox :
                /\ actor'.outbox[k].to_node \in Peers(actor)
                /\ actor'.outbox[k] =
                       RaftMessage(0, "MsgHeartbeat", NodeId, actor'.outbox[k].to_node)
          /\ \A node_id \in Peers(actor) :
                Cardinality({k \in DOMAIN actor'.outbox :
                                actor'.outbox[k].to_node = node_id}) = 1]_vars

\* a heartbeat interval has ended on a node whose peer shares two groups
\* with it, and one heartbeat went to that peer
C15_Witness ==
    /\ actor.ticks = 0
    /\ \E node_id \in Peers(actor) :
          /\ Cardinality(SharedGroups(actor, node_id)) = 2
          /\ actor.outbox = <<RaftMessage(0, "MsgHeartbeat", NodeId, node_id)>>

\* C16: handling a coalesced heartbeat (one that names its source and
\* destination nodes) sends one MsgHeartbeatResponse with group_id 0 from
\* the local node to the source node and nothing else, whether or not the
\* source node is in the fan-out map.
C16_OneResponsePerHeartbeat ==
    [][(HandlesRaftMessage("MsgHeartbeat") /\ Head(actor.raft_message_rx).from_node # 0) =>
          actor'.outbox = <<RaftMessage(0, "MsgHeartbeatResponse", NodeId,
                                        Head(actor.raft_message_rx).from_node)>>]_vars

\* a node that is not in the fan-out map has been answered, on a node that
\* shares groups with another peer
C16_Witness ==
    /\ UnknownNode \notin DOMAIN actor.nodes
    /\ Peers(actor) # {}
    /\ actor.received > 0
    /\ actor.raft_message_rx = <<>>
    /\ actor.outbox = <<RaftMessage(0, "MsgHeartbeatResponse", NodeId, UnknownNode)>>

\* the step is the actor taking a management message of the given type
HandlesManagement(type) ==
    /\ actor.manager_group_rx # <<>>
    /\ Head(actor.manager_group_rx).type = type
    /\ actor'.manager_group_rx = Tail(actor.manager_group_rx)

\* the request is refused by the checks of group creation
RefusedCreation(a, msg) ==
    msg.group_id = 0 \/ msg.replica_id = 0 \/ msg.group_id \in DOMAIN a.groups

\* C17: a creation request with group id 0 or replica id 0 is answered
\* BadParameter and one for a group the node already holds is answered
\* RaftGroupAlreayExists; handling it leaves the group map, the fan-out map
\* and the storage registry as they were, the answer is the request's only
\* one, and an answer once given is never changed or added to.
C17_RefusedCreationChangesNothing ==
    [][/\ \A id \in DOMAIN actor.results :
             actor.results[id] # <<>> => actor'.results[id] = actor.results[id]
       /\ LET msg == Head(actor.manager_group_rx)
          IN (HandlesManagement("MsgInitialGroup") /\ RefusedCreation(actor, msg)) =>
                /\ actor.results[msg.id] = <<>>
                /\ actor'.results[msg.id] =
                       <<IF msg.group_id = 0 \/ msg.replica_id = 0
                         THEN "BadParameter" ELSE "RaftGroupAlreayExists">>
                /\ actor'.groups = actor.groups
                /\ actor'.nodes = actor.nodes
                /\ actor'.storages = actor.storages]_vars

\* the second creation of a group has been refused and the first stands
C17_Witness ==
    /\ Len(actor.requests) = 2
    /\ actor.requests[1].type = "MsgInitialGroup"
    /\ actor.requests[2].type = "MsgInitialGroup"
    /\ actor.requests[2].initial_voters # actor.requests[1].initial_voters
    /\ actor.results = <<<<"Ok">>, <<"RaftGroupAlreayExists">>>>
    /\ actor.requests[2].group_id \in DOMAIN actor.groups
    /\ actor.storages[actor.requests[2].group_id] = actor.requests[1].initial_voters

\* C18: handling a write whose caller has dropped the receiving end of the
\* reply channel completes the write, leaves the actor running and leaves
\* the other writes as they were.
C18_DroppedReceiverHarmless ==
    [][(/\ actor.write_propose_rx # <<>>
        /\ Head(actor.write_propose_rx).rx_dropped
        /\ actor'.write_propose_rx = Tail(actor.write_propose_rx)) =>
          /\ ~actor'.panicked
          /\ \A id \in DOMAIN actor.writes :
                id # Head(actor.write_propose_rx).id => actor'.writes[id] = actor.writes[id]]_vars

\* C20: the completed recv() calls have consumed the tick requests one
\* each, in the order they were sent, without loss or repetition: the k-th
\* completion took the k-th request sent and the queue holds the requests
\* sent after those; a tick() has returned only if a recv() consumed its
\* request.
C20_TicksOneForOne ==
    /\ \A k \in DOMAIN ticker.recvs : ticker.recvs[k] = k
    /\ ticker.chan = [k \in 1..(Len(ticker.requests) - Len(ticker.recvs)) |->
                         Len(ticker.recvs) + k]
    /\ \A id \in ticker.returned :
          /\ ticker.requests[id].kind = "tick"
          /\ \E k \in DOMAIN ticker.recvs : ticker.recvs[k] = id

\* blocking and non-blocking requests of both clones have all been
\* consumed, a tick() has returned and another was dropped by its caller
C20_Witness ==
    /\ Len(ticker.requests) = MaxTicks
    /\ Len(ticker.recvs) = MaxTicks
    /\ {ticker.requests[id].clone : id \in DOMAIN ticker.requests} = Clones
    /\ \E id \in DOMAIN ticker.requests : ticker.requests[id].kind = "non_blocking_tick"
    /\ ticker.returned # {}
    /\ ticker.dropped # {}

\* the step is handle_light_ready with every storage call succeeding
LightReadyHandled ==
    pc = "light" /\ pc' = "idle" /\ budget' = budget

\* C21: when the Ready of a pass has left an apply batch for the group and
\* the LightReady of the same pass carries committed entries too, the apply
\* work that leaves the pass holds the entries of both, the Ready's first.
C21_LightReadyBatchKeepsReadyBatch ==
    [][(/\ LightReadyHandled
        /\ GroupId \in DOMAIN multi_groups_apply
        /\ gwr.light_ready[1].committed_entries # <<>>) =>
          /\ apply_chan' # <<>>
          /\ Last(apply_chan').entries =
                 multi_groups_apply[GroupId].entries \o gwr.light_ready[1].committed_entries]_vars

\* C22: ready() is called on the group only when every Ready taken before
\* has been advanced: a Ready is persisted and advanced before the next
\* one is taken, also after a pass that a storage error cut short.
C22_ReadyAdvancedBeforeNextReady ==
    [][raft'.records > raft.records => raft.records = 0]_vars

\* the step is a handle_ready in which the lookup or the repair of the
\* replica descriptor, or the lookup of the group storage, failed
ReadyAborted ==
    /\ pc = "idle"
    /\ budget'.faults < budget.faults
    /\ budget'.failed \in {"replica_for_node", "cache_replica_desc", "group_storage"}

\* C23: a handle_ready that aborts on a storage error hands no message to
\* the transport, pushes no event, answers no read-index request and no
\* proposal, leaves the write request and the apply batches of the pass as
\* they were, and the group stays in the group map.
C23_AbortedReadyChangesNothing ==
    [][ReadyAborted =>
          /\ UNCHANGED <<transport, events, read_replies, replies, gwr, multi_groups_apply,
                         apply_chan, groups, group>>
          /\ pc' = "idle"
          /\ GroupId \in groups']_vars

\* a leader with an entry to replicate has had its Ready dropped by a
\* storage error: nothing was sent and no write request was queued
C23_Witness ==
    /\ budget.failed \in {"replica_for_node", "cache_replica_desc", "group_storage"}
    /\ pc = "idle"
    /\ GroupLive
    /\ is_leader(raft)
    /\ raft.records = 1
    /\ ready(raft).messages # <<>>
    /\ transport = <<>>
    /\ gwr = None

\* the step is the actor handing the proposal at the head of the propose
\* channel to its group
ProposalHandled ==
    /\ propose_chan # <<>>
    /\ Head(propose_chan).kind # "read_index"
    /\ propose_chan' = Tail(propose_chan)
    /\ GroupLive

\* the request has no data, or the replica is not the leader, or the
\* request expects a term that has passed
FailsPreCheck(msg, r) ==
    \/ msg.size = 0
    \/ ~is_leader(r)
    \/ msg.term # 0 /\ r.term > msg.term

\* C24: a write or membership proposal that fails a pre-check leaves the
\* last index of the log, the proposal queue and the read-index queue as
\* they were, and the error is the one reply of the request: it had none
\* before, and a request refused by its group is never answered again.
C24_RefusedProposalChangesNothing ==
    [][/\ \A r \in Requests :
             (replies[r] # <<>> /\ replies[r][1].by = "group") => replies'[r] = replies[r]
       /\ (ProposalHandled /\ FailsPreCheck(Head(propose_chan), raft)) =>
             LET msg == Head(propose_chan)
             IN /\ last_index(raft') = last_index(raft)
                /\ group'.proposals = group.proposals
                /\ group'.read_index_queue = group.read_index_queue
                /\ replies[msg.req] = <<>>
                /\ Len(replies'[msg.req]) = 1
                /\ replies'[msg.req][1].kind \in {"BadParameter", "Write::NotLeader", "Stale"}
                /\ \A r \in Requests \ {msg.req} : replies'[r] = replies[r]]_vars

\* a leader with a proposal queued and a read pending has refused a write
\* that expected an earlier term
C24_Witness ==
    /\ GroupLive
    /\ is_leader(raft)
    /\ group.proposals # <<>>
    /\ group.read_index_queue # <<>>
    /\ \E r \in Requests :
          /\ replies[r] = <<Reply("Stale", "group", <<1, 2>>)>>
          /\ ~Occurs(group.proposals, r) > 0

\* C25: a write with data handed to a leader is answered
\* Stale(expected term, current term) exactly when its expected term is
\* not 0 and is below the current term; in particular a write that expects
\* term 0 is not answered Stale.
C25_StaleExactlyWhenTermPassed ==
    [][LET msg == Head(propose_chan)
       IN (ProposalHandled /\ msg.kind = "write" /\ msg.size # 0 /\ is_leader(raft)) =>
             IF msg.term # 0 /\ raft.term > msg.term
             THEN replies'[msg.req] = <<Reply("Stale", "group", <<msg.term, raft.term>>)>>
             ELSE \A k \in DOMAIN replies'[msg.req] : replies'[msg.req][k].kind # "Stale"]_vars

\* a leader in term 2 has refused a write that expected term 1 and has
\* queued a write that expected no term
C25_Witness ==
    /\ GroupLive
    /\ is_leader(raft)
    /\ raft.term = 2
    /\ \E r1, r2 \in Requests :
          /\ replies[r1] = <<Reply("Stale", "group", <<1, 2>>)>>
          /\ expected[r2] = 0
          /\ replies[r2] = <<>>
          /\ \E k \in DOMAIN group.proposals :
                group.proposals[k].req = r2 /\ group.proposals[k].term = 2


\* a write with data reaches propose_write on a leader and passes the pre-check
WriteProposed ==
    /\ ProposalHandled
    /\ Head(propose_chan).kind = "write"
    /\ ~FailsPreCheck(Head(propose_chan), raft)

\* what propose_write does with the proposal record: a record is queued
\* only when the last index advanced by one, at the tail, for the entry just
\* appended, with the term of the call; with no advance and no error of the
\* library the reply is UnexpectedIndex and the queue is as it was
ProposeWriteRule ==
    LET msg == Head(propose_chan)
    IN WriteProposed =>
          /\ group'.proposals # group.proposals =>
                /\ last_index(raft') = last_index(raft) + 1
                /\ group'.proposals =
                      Append(group.proposals,
                             Proposal(last_index(raft'), raft.term, FALSE, msg.req))
                /\ replies'[msg.req] = <<>>
          /\ last_index(raft') = last_index(raft) =>
                /\ group'.proposals = group.proposals
                /\ replies'[msg.req] \in
                      {<<Reply("UnexpectedIndex", "group",
                               <<last_index(raft) + 1, last_index(raft)>>)>>,
                       <<Reply("Raft", "group", <<>>)>>}

IncreasingIndex(queue) ==
    \A k \in 1..(Len(queue) - 1) : queue[k].index < queue[k + 1].index

\* the records are ordered by term, and by index within a term
IncreasingTermIndex(queue) ==
    \A k \in 1..(Len(queue) - 1) :
       \/ queue[k].term < queue[k + 1].term
       \/ queue[k].term = queue[k + 1].term /\ queue[k].index < queue[k + 1].index

WriteAppended ==
    /\ actor.write_propose_rx # <<>>
    /\ actor'.write_propose_rx = Tail(actor.write_propose_rx)
    /\ LET g == Head(actor.write_propose_rx).group_id
       IN actor_last_index(actor', g) = actor_last_index(actor, g) + 1

\* C27: a write with data on a leader for which the library appends one
\* entry leaves a proposal record whose index is the index of the new
\* entry and is not answered with the Unexpected index error, in
\* write_propose and in handle_write_request.
C27_AppendedWriteIsQueued ==
    [][WriteAppended =>
          LET request == Head(actor.write_propose_rx)
              index == actor_last_index(actor', request.group_id)
              res == handle_write_request(actor, request, 1, "append")
          IN /\ actor'.writes[request.id] # "Proposal::Unexpected"
             /\ ~actor'.panicked
             /\ actor'.proposals # <<>>
             /\ Last(actor'.proposals).index = index
             /\ Last(actor'.proposals).req = request.id
             /\ res.err # "Proposal::Unexpected"
             /\ res.proposal # <<>>
             /\ res.proposal[1].index = index]_vars

\* the place of a call in the order snapshot, entries, hard state,
\* persisted messages, advance_append
CallRank(call) ==
    CASE call = "apply_snapshot" -> 1
      [] call = "append_entries" -> 2
      [] call = "set_hardstate" -> 3
      [] call = "send_messages" -> 4
      [] call = "advance_append" -> 5

\* the calls a Ready is due: one for each part it carries
DueCalls(rd) ==
    {call \in {"apply_snapshot", "append_entries", "set_hardstate", "send_messages"} :
        \/ call = "apply_snapshot" /\ rd.snapshot # <<>>
        \/ call = "append_entries" /\ rd.entries # <<>>
        \/ call = "set_hardstate" /\ rd.hs # <<>>
        \/ call = "send_messages" /\ rd.persisted_messages # <<>>}

\* C28: handle_ready_write installs the snapshot, appends the entries,
\* sets the hard state and sends the persisted messages in this order, each
\* only if the Ready carries it, and only then calls advance_append; the
\* LightReady is then on the same write request and the Ready is off it.
C28_PersistBeforeSendBeforeAdvance ==
    /\ \A i, j \in DOMAIN transport : i < j => CallRank(transport[i]) < CallRank(transport[j])
    /\ (gwr # None /\ gwr.ready # <<>>) =>
          /\ \A i \in DOMAIN transport : transport[i] \in DueCalls(gwr.ready[1])
          /\ gwr.light_ready = <<>>
    /\ pc = "light" =>
          /\ gwr.ready = <<>>
          /\ Len(gwr.light_ready) = 1
          /\ gwr.replica_id = raft.id
          /\ Last(transport) = "advance_append"
          /\ raft.records = 0

\* a Ready with a snapshot, entries, a hard state and a message to send
\* after persistence has been written and advanced
C28_Witness ==
    /\ pc = "light"
    /\ transport = <<"apply_snapshot", "append_entries", "set_hardstate", "send_messages",
                     "advance_append">>
    /\ raft.persisted = Len(raft.log)

\* handle_ready or handle_light_ready has created an apply batch for the group
ApplyCreated ==
    /\ pc \in {"idle", "light"}
    /\ GroupId \in DOMAIN multi_groups_apply'
    /\ multi_groups_apply' # multi_groups_apply

\* C29: an apply batch is created with commit_index the minimum of the
\* committed and the persisted index of the Raft log at that time and
\* commit_term the term stored at that index, and each of its entries has
\* an index up to the persisted index and is the entry the log storage
\* holds there: nothing goes to the state machine before it was appended.
C29_BatchWithinPersisted ==
    [][ApplyCreated =>
          LET batch == multi_groups_apply'[GroupId]
          IN /\ batch.commit_index = Min(raft.committed, raft.persisted)
             /\ batch.commit_index <= raft.persisted
             /\ batch.commit_term =
                   (IF batch.commit_index = 0 THEN 0 ELSE raft.log[batch.commit_index].term)
             /\ batch.entries # <<>>
             /\ \A k \in DOMAIN batch.entries :
                   /\ batch.entries[k].index >= 1
                   /\ batch.entries[k].index <= raft.persisted
                   /\ batch.entries[k].index <= batch.commit_index
                   /\ batch.entries[k].term = raft.log[batch.entries[k].index].term]_vars

\* handle_ready has created a batch on a replica whose committed index is
\* ahead of what it has persisted: the batch ends at the persisted index
C29_Witness ==
    /\ pc = "write"
    /\ GroupId \in DOMAIN multi_groups_apply
    /\ multi_groups_apply[GroupId].entries # <<>>
    /\ multi_groups_apply[GroupId].commit_index = raft.persisted
    /\ raft.persisted < raft.committed
    /\ Last(multi_groups_apply[GroupId].entries).index = raft.persisted

\* handle_ready has run to its end: a write request is queued for the group
ReadyCompleted == pc = "idle" /\ pc' = "write"

\* C30: after a handle_ready that does not abort, the replica cache and the
\* storage both hold the descriptor of the group's replica on the local
\* node, with the id of the group's Raft instance, written by the repair
\* rule if it was missing, and the queued write request carries that id.
C30_LocalReplicaDescribed ==
    [][ReadyCompleted =>
          /\ raft.id \in replica_cache'.cached
          /\ raft.id \in replica_cache'.stored
          /\ NodeOf(raft.id) = group.node_id
          /\ gwr' # None
          /\ gwr'.replica_id = raft.id
          /\ raft'.id = raft.id]_vars

\* a first handle_ready failed to write the repaired descriptor and
\* aborted; a later one has repaired the cache and the storage and has
\* queued the write request
C30_Witness ==
    /\ pc = "write"
    /\ budget.failed = "cache_replica_desc"
    /\ replica_cache.cached = {raft.id}
    /\ replica_cache.stored = {raft.id}
    /\ gwr.replica_id = raft.id

\* the Ready that a completed handle_ready has taken carries a soft state
\* that names a leader other than the cached one
LeaderChangeDue ==
    /\ ready(raft).ss # <<>>
    /\ ready(raft).ss[1].leader_id # 0
    /\ ready(raft).ss[1].leader_id # group.leader.replica_id

\* C31: a Ready whose soft state names a leader that is not 0 and not the
\* cached leader makes the group cache that replica as its leader and emit
\* exactly one LeaderElection event for it, also when the node of the
\* leader is unknown or the lookup of its descriptor fails; any other
\* soft state emits no event and leaves the cached leader as it was.
C31_LeaderChangeCachedAndAnnounced ==
    [][ReadyCompleted =>
          IF LeaderChangeDue
          THEN /\ group'.leader.replica_id = ready(raft).ss[1].leader_id
               /\ events' = Append(events,
                                   LeaderElectionEvent(group.group_id,
                                                       ready(raft).ss[1].leader_id,
                                                       ready(raft).ss[1].leader_id))
          ELSE /\ events' = events
               /\ group'.leader = group.leader]_vars

\* C32: try_batch merges exactly when the budget is above 0 and the two
\* sizes together are within it; on a merge self has its entries and
\* proposals followed by that's, the sum of the sizes and that's term,
\* commit index and commit term, and that's entries and proposals are
\* empty; with no merge both batches are as they were.
C32_TryBatchMergesWithinBudget ==
    [][(pc = "batch" /\ pc' \in {"merged", "kept"}) =>
          LET this == apply_chan[1]
              that == apply_chan[2]
              max == budget.max_apply_batch_size
          IN /\ (pc' = "merged") <=> (max > 0 /\ this.entries_size + that.entries_size <= max)
             /\ pc' = "merged" =>
                   /\ apply_chan'[1].entries = this.entries \o that.entries
                   /\ apply_chan'[1].proposals = this.proposals \o that.proposals
                   /\ apply_chan'[1].entries_size = this.entries_size + that.entries_size
                   /\ apply_chan'[1].term = that.term
                   /\ apply_chan'[1].commit_index = that.commit_index
                   /\ apply_chan'[1].commit_term = that.commit_term
                   /\ apply_chan'[1].replica_id = this.replica_id
                   /\ apply_chan'[1].group_id = this.group_id
                   /\ apply_chan'[2].entries = <<>>
                   /\ apply_chan'[2].proposals = <<>>
             /\ pc' = "kept" => apply_chan' = apply_chan]_vars

\* two batches that fill the budget exactly have been merged: self has the
\* entries 1, 2, 3 and the proposal records of both, that is empty
C32_Witness ==
    /\ pc = "merged"
    /\ budget.max_apply_batch_size = 3
    /\ apply_chan[1].entries_size = 3
    /\ [k \in 1..3 |-> apply_chan[1].entries[k].index] = <<1, 2, 3>>
    /\ Len(apply_chan[1].proposals) = 2
    /\ apply_chan[1].proposals[1].index < apply_chan[1].proposals[2].index
    /\ apply_chan[2].entries = <<>>
    /\ apply_chan[2].proposals = <<>>

\* C33: every proposal record of an apply batch has the (term, index) of
\* an entry of the same batch whose term is the current term of the group
\* when the batch is created; no two records of a batch match the same
\* entry, and a matched record has left the proposal queue of the group.
C33_BatchProposalsMatchEntries ==
    [][ApplyCreated =>
          LET batch == multi_groups_apply'[GroupId]
          IN /\ \A k \in DOMAIN batch.proposals :
                   /\ \E e \in DOMAIN batch.entries :
                         /\ batch.entries[e].term = batch.proposals[k].term
                         /\ batch.entries[e].index = batch.proposals[k].index
                         /\ batch.entries[e].term = raft.term
                   /\ \A q \in DOMAIN group'.proposals :
                         group'.proposals[q] # batch.proposals[k]
                   /\ Occurs(group'.proposals, batch.proposals[k].req) = 0
             /\ \A k, l \in DOMAIN batch.proposals :
                   k # l => \/ batch.proposals[k].index # batch.proposals[l].index
                            \/ batch.proposals[k].term # batch.proposals[l].term]_vars

\* handle_ready has created a batch of two entries, the second of them
\* matched by the one proposal record of the batch, which has left the queue
C33_Witness ==
    /\ pc = "write"
    /\ GroupId \in DOMAIN multi_groups_apply
    /\ Len(multi_groups_apply[GroupId].entries) = 2
    /\ Len(multi_groups_apply[GroupId].proposals) = 1
    /\ multi_groups_apply[GroupId].proposals[1].index = 2
    /\ multi_groups_apply[GroupId].proposals[1].term = raft.term
    /\ group.proposals = <<>>

\* the library has returned a read state for the uuid: it is in the Ready
\* about to be handled, or an earlier Ready has marked the record with it
ReadStateReturned(u) ==
    \/ \E k \in DOMAIN raft.read_states : raft.read_states[k].uuid = u
    \/ \E k \in DOMAIN group.read_index_queue :
          /\ group.read_index_queue[k].uuid = u
          /\ group.read_index_queue[k].read_index # <<>>

ReadPending(u) == \E k \in DOMAIN group.read_index_queue : group.read_index_queue[k].uuid = u

\* C34: a pending read-index record is answered only after the library
\* has returned a read state that carries its uuid; a record whose uuid
\* has not been returned stays pending and is not answered for the read
\* state of another request.
C34_ReadAnsweredForOwnReadState ==
    [][\A u \in DOMAIN read_replies :
          /\ (/\ read_replies'[u] # read_replies[u]
              /\ Last(read_replies'[u]).kind = "Ok") => ReadPending(u) /\ ReadStateReturned(u)
          /\ (GroupLive /\ GroupLive' /\ ReadPending(u) /\ ~ReadStateReturned(u)) =>
                /\ read_replies'[u] = read_replies[u]
                /\ \E k \in DOMAIN group'.read_index_queue :
                      /\ group'.read_index_queue[k].uuid = u
                      /\ group'.read_index_queue[k].read_index = <<>>]_vars

\* the read state of the second request has come back first: the second
\* record is marked, and neither request has been answered
C34_Witness ==
    /\ GroupLive
    /\ Len(group.read_index_queue) = 2
    /\ group.read_index_queue[1].read_index = <<>>
    /\ group.read_index_queue[2].read_index # <<>>
    /\ raft.read_states = <<>>
    /\ \A u \in DOMAIN read_replies : read_replies[u] = <<>>

\* C35: an inbound Raft message of a group (group id not 0) is stepped
\* into the Raft instance of that group whatever its type; a group not yet
\* on the node is first created for the replica the message is addressed
\* to, and a failure to create it does not stop the actor.
C35_GroupMessageStepped ==
    [][(/\ ~actor.panicked
        /\ actor.raft_message_rx # <<>>
        /\ actor'.raft_message_rx = Tail(actor.raft_message_rx)
        /\ Head(actor.raft_message_rx).group_id # NO_GORUP) =>
          LET raft_msg == Head(actor.raft_message_rx)
              stepped == step_raft_message(actor, raft_msg, LocalReplica)
          IN /\ ~actor'.panicked
             /\ raft_msg.group_id \in DOMAIN actor.storages =>
                   /\ raft_msg.group_id \in DOMAIN actor'.groups
                   /\ raft_msg.group_id \in actor'.stepped
             /\ ~stepped.panicked]_vars

\* the initial voters of the group a management message creates whose node
\* the storage of the actor knows: those of the message for MsgInitialGroup,
\* those of the stored configuration for a bootstrap
KnownVoters(a, msg) ==
    IF msg.group_id \notin DOMAIN a.storages THEN {}
    ELSE IF msg.type = "MsgInitialGroup"
    THEN msg.initial_voters \cap a.storages[msg.group_id]
    ELSE a.storages[msg.group_id]

\* C36: after a group is created on a node, by initial_group or by
\* bootstrap, the fan-out map entry of the node of every initial voter
\* whose node id is known contains the group; the fan-out map never
\* contains group id 0.
C36_FanoutCoversKnownVoters ==
    [][/\ \A n \in DOMAIN actor'.nodes : 0 \notin actor'.nodes[n]
       /\ LET msg == Head(actor.manager_group_rx)
          IN (/\ actor.manager_group_rx # <<>>
              /\ actor'.manager_group_rx = Tail(actor.manager_group_rx)
              /\ msg.group_id \notin DOMAIN actor.groups
              /\ msg.group_id \in DOMAIN actor'.groups) =>
                \A v \in KnownVoters(actor, msg) :
                   /\ NodeOf(v) \in DOMAIN actor'.nodes
                   /\ msg.group_id \in actor'.nodes[NodeOf(v)]]_vars

\* a handler of the actor hands messages to the transport and a send
\* returns an error
SendFailed ==
    /\ actor'.send_failed # {}
    /\ \/ actor'.ticks # actor.ticks
       \/ \E type \in {"MsgHeartbeat", "MsgHeartbeatResponse", "MsgAppend"} :
             HandlesRaftMessage(type)

\* C37: a transport send that returns an error is dropped: the actor does
\* not panic or stop, and its groups, fan-out map and storages are what
\* they were, for coalesced heartbeats and heartbeat responses alike.
C37_TransportErrorDropped ==
    [][SendFailed =>
         /\ ~actor'.panicked
         /\ actor'.groups = actor.groups
         /\ actor'.nodes = actor.nodes
         /\ actor'.storages = actor.storages]_vars

\* C38: when a group is removed, every read-index record pending in its
\* read-index queue is answered by the removal and the read-index queue is
\* empty afterwards, so that no read_index caller of a removed group is
\* left waiting.
C38_RemovalAnswersReads ==
    [][GroupLive /\ group'.status = "Delete" =>
          /\ group'.read_index_queue = <<>>
          /\ \A u \in DOMAIN read_replies :
                ReadPending(u) => Len(read_replies'[u]) > Len(read_replies[u])]_vars

\* the group was removed and is on the node again with another replica id
Recreated == GroupLive /\ raft.id = RecreatedReplica

\* C39: the assertion of handle_ready never fails: whenever the replica
\* cache holds a descriptor for the local node, also after the group was
\* removed and created again with another replica id, its replica id is
\* the id of the group's Raft instance, and the actor has not panicked.
C39_ReadyAssertionHolds ==
    /\ pc # "panicked"
    /\ GroupLive =>
          \A r \in replica_cache.cached \cup replica_cache.stored :
             NodeOf(r) = group.node_id => r = raft.id

\* C40: handling a coalesced MsgHeartbeatResponse sends no message, and
\* handling a coalesced MsgHeartbeat sends at most one message, a
\* MsgHeartbeatResponse: a heartbeat causes at most one message in reply
\* and the reply causes none, so the exchange between two nodes ends.
C40_HeartbeatExchangeEnds ==
    [][/\ HandlesRaftMessage("MsgHeartbeatResponse") => actor'.outbox = <<>>
       /\ HandlesRaftMessage("MsgHeartbeat") =>
             /\ Len(actor'.outbox) <= 1
             /\ \A k \in DOMAIN actor'.outbox :
                   actor'.outbox[k].type = "MsgHeartbeatResponse"]_vars

\* the actor of a node with a peer has answered a heartbeat and then
\* handled a response, and has sent nothing for it
C40_Witness ==
    /\ actor.handled = "MsgHeartbeatResponse"
    /\ actor.received = 2
    /\ actor.raft_message_rx = <<>>
    /\ Peers(actor) # {}
    /\ actor.outbox = <<>>
    /\ ~actor.panicked
====
